---- MODULE Spec2Model ----
(***************************************************************************)
(* A model of the update-dotnet-sdk action: the release resolution of      *)
(* DotNetSdkUpdater (getReleaseForSdk, getLatestRelease) and the run of     *)
(* tryUpdateSdk driven by main.run.                                         *)
(*                                                                          *)
(* JavaScript strings are modelled as sequences of characters, so that     *)
(* split, parseInt, includes, template literals, toLowerCase and            *)
(* localeCompare are computed the way the code computes them. A character   *)
(* (a code point) is a one-character string; a character that the text of   *)
(* a module cannot hold is the string "U+" followed by its code point in    *)
(* four to six capital hexadecimal digits: the control characters other     *)
(* than tab, line feed, form feed and carriage return, the grave accent     *)
(* "U+0060", the characters from U+0080 on whose code point ends in a byte  *)
(* below 80, such as "U+0130", and the characters beyond U+FFFF, such as    *)
(* "U+10400".                                                               *)
(***************************************************************************)
EXTENDS Integers, Sequences, FiniteSets, TLC

(***************************************************************************)
(* Strings                                                                  *)
(***************************************************************************)

Digits == <<"0", "1", "2", "3", "4", "5", "6", "7", "8", "9">>

IsDigit(c) == \E i \in 1..10 : Digits[i] = c

DigitValue(c) == (CHOOSE i \in 1..10 : Digits[i] = c) - 1

RECURSIVE NatToStr(_)
NatToStr(n) ==
    IF n < 10
    THEN <<Digits[n + 1]>>
    ELSE NatToStr(n \div 10) \o <<Digits[(n % 10) + 1]>>

\* A number of the code: NaN, an infinity, or an integer, held as its sign
\* and the decimal digits of its magnitude, so that it has no bound. The
\* code's numbers are IEEE doubles; -0 is held as 0, which no step of the
\* code tells apart.
NaN == [nan |-> TRUE, infinite |-> FALSE, negative |-> FALSE, digits |-> <<0>>]

\* Infinity and -Infinity
Infinity(negative) ==
    [nan |-> FALSE, infinite |-> TRUE, negative |-> negative, digits |-> <<0>>]

\* The integer with this sign and these digits, leading zeros dropped
Finite(negative, ds) ==
    LET first == IF \A i \in 1..Len(ds) : ds[i] = 0
                 THEN Len(ds)
                 ELSE CHOOSE i \in 1..Len(ds) :
                        ds[i] # 0 /\ \A j \in 1..(i - 1) : ds[j] = 0
        kept == SubSeq(ds, first, Len(ds))
    IN  [nan |-> FALSE, infinite |-> FALSE,
         negative |-> negative /\ kept # <<0>>, digits |-> kept]

\* The number of an integer of the model
Number(n) ==
    LET text == NatToStr(IF n < 0 THEN 0 - n ELSE n)
    IN  Finite(n < 0, [i \in 1..Len(text) |-> DigitValue(text[i])])

\* Of two magnitudes, x is the smaller
Smaller(x, y) ==
    \/ Len(x) < Len(y)
    \/ /\ Len(x) = Len(y)
       /\ \E i \in 1..Len(x) :
            /\ x[i] < y[i]
            /\ \A j \in 1..(i - 1) : x[j] = y[j]

\* a < b, false when either is NaN
NumLess(a, b) ==
    /\ ~a.nan
    /\ ~b.nan
    /\ IF a.infinite \/ b.infinite
       THEN \/ a.infinite /\ a.negative /\ ~(b.infinite /\ b.negative)
            \/ b.infinite /\ ~b.negative /\ ~(a.infinite /\ ~a.negative)
       ELSE IF a.negative # b.negative THEN a.negative
       ELSE IF a.negative THEN Smaller(b.digits, a.digits)
       ELSE Smaller(a.digits, b.digits)

\* The integer after an integer, exactly
Succ(a) ==
    LET ds == a.digits
        \* the last digit that is not d, 0 when all are
        Turn(d) == IF \E i \in 1..Len(ds) : ds[i] # d
                   THEN CHOOSE i \in 1..Len(ds) :
                            ds[i] # d /\ \A j \in (i + 1)..Len(ds) : ds[j] = d
                   ELSE 0
        Up(at) == IF at = 0 THEN <<1>> \o [i \in 1..Len(ds) |-> 0]
                  ELSE [i \in 1..Len(ds) |->
                          IF i < at THEN ds[i]
                          ELSE IF i = at THEN ds[i] + 1 ELSE 0]
        Down(at) == [i \in 1..Len(ds) |->
                        IF i < at THEN ds[i]
                        ELSE IF i = at THEN ds[i] - 1 ELSE 9]
    IN  IF a.negative THEN Finite(TRUE, Down(Turn(0))) ELSE Finite(FALSE, Up(Turn(9)))

RECURSIVE Scaled(_, _, _)
\* ds * 2^e when up, the whole part of ds / 2^e when not: one doubling or
\* halving digit by digit, more of them by halves of e
Scaled(ds, e, up) ==
    IF e = 0 THEN ds
    ELSE IF e > 1
    THEN LET part == Scaled(ds, e \div 2, up)
         IN  IF Len(part) > 0 THEN Scaled(part, e - e \div 2, up) ELSE part
    ELSE IF up
    THEN Finite(FALSE, [i \in 1..(Len(ds) + 1) |->
            IF i = 1 THEN (IF ds[1] >= 5 THEN 1 ELSE 0)
            ELSE (2 * ds[i - 1] + (IF i <= Len(ds) /\ ds[i] >= 5 THEN 1 ELSE 0)) % 10]).digits
    ELSE Finite(FALSE, [i \in 1..Len(ds) |->
            ((IF i > 1 THEN ds[i - 1] % 2 ELSE 0) * 10 + ds[i]) \div 2]).digits

\* The double nearest to the integer with these digits, ties to the even
\* mantissa of 53 bits; infinite from 2^1024 on
Rounded(ds) ==
    LET two52 == <<4, 5, 0, 3, 5, 9, 9, 6, 2, 7, 3, 7, 0, 4, 9, 6>>
        two53 == <<9, 0, 0, 7, 1, 9, 9, 2, 5, 4, 7, 4, 0, 9, 9, 2>>
        Mantissa(q) == ~Smaller(q, two52) /\ Smaller(q, two53)
        \* ds - y, digit by digit, y as long as ds: a digit borrows when the
        \* nearest digit to its right that differs is the smaller one
        Minus(y) ==
            Finite(FALSE, [i \in 1..Len(ds) |->
                (ds[i] - y[i] + 10
                 - (IF \E j \in (i + 1)..Len(ds) :
                          /\ ds[j] < y[j]
                          /\ \A k \in (i + 1)..(j - 1) : ds[k] = y[k]
                    THEN 1 ELSE 0)) % 10]).digits
        Below(below) == Minus([i \in 1..(Len(ds) - Len(below)) |-> 0] \o below)
        \* the mantissa q, or the one above it when what ds has above
        \* q * 2^e is more than half of 2^e, or is that half and q is odd
        Nearest(q, r, half) ==
            IF Smaller(half, r) \/ (r = half /\ q[Len(q)] % 2 = 1)
            THEN Succ(Finite(FALSE, q)).digits
            ELSE q
        Mantissa53(e, q) ==
            Scaled(Nearest(q, Below(Scaled(q, e, TRUE)), Scaled(<<1>>, e - 1, TRUE)),
                   e, TRUE)
        Double(double) ==
            IF Len(ds) = 309 /\ ~Smaller(double, Scaled(<<1>>, 1024, TRUE))
            THEN [infinite |-> TRUE, digits |-> <<0>>]
            ELSE [infinite |-> FALSE, digits |-> double]
        \* e bits lie below the mantissa
        Above(e) == Double(Mantissa53(e, Scaled(ds, e, FALSE)))
    IN  IF Len(ds) <= 15 \/ Smaller(ds, two53) THEN [infinite |-> FALSE, digits |-> ds]
        ELSE IF Len(ds) > 309 THEN [infinite |-> TRUE, digits |-> <<0>>]
        \* the e with 2^52 <= ds / 2^e < 2^53, sought where the number of
        \* digits puts it
        ELSE Above(CHOOSE k \in ((((Len(ds) - 1) * 3321928) \div 1000000) - 52)
                                 ..(((Len(ds) * 3321929) \div 1000000) - 52) :
                      k >= 1 /\ Mantissa(Scaled(ds, k, FALSE)))

\* The white space parseInt skips: tab, vertical tab, form feed, space,
\* no-break space, byte order mark, the space separators, and the line
\* terminators
WhiteSpace ==
    {"\t", "U+000B", "\f", " ", " ", "﻿", " ", "U+2000", "U+2001", "U+2002", "U+2003",
     "U+2004", "U+2005", "U+2006", "U+2007", "U+2008", "U+2009", "U+200A", "U+202F", "U+205F", "U+3000", "\n",
     "\r", "U+2028", "U+2029"}

\* parseInt(s, 10): leading white space is skipped, a sign is taken, and the
\* decimal digits that follow give the value, rounded to a double; NaN
\* without a digit there
ParseInt(s) ==
    LET \* the digits from first on, after a sign or none
        Digits10(negative, first) ==
            LET end == CHOOSE i \in first..(Len(s) + 1) :
                          /\ \A j \in first..(i - 1) : IsDigit(s[j])
                          /\ i > Len(s) \/ ~IsDigit(s[i])
                Value(double) ==
                    IF double.infinite THEN Infinity(negative)
                    ELSE Finite(negative, double.digits)
            IN  IF end = first THEN NaN
                ELSE Value(Rounded(Finite(FALSE, [i \in 1..(end - first) |->
                                             DigitValue(s[first + i - 1])]).digits))
        Signed(start, signed) ==
            Digits10(signed /\ s[start] = "-", IF signed THEN start + 1 ELSE start)
        From(start) == Signed(start, start <= Len(s) /\ s[start] \in {"+", "-"})
    IN  From(CHOOSE i \in 1..(Len(s) + 1) :
                /\ \A j \in 1..(i - 1) : s[j] \in WhiteSpace
                /\ i > Len(s) \/ s[i] \notin WhiteSpace)

\* n++ : the double nearest to n + 1
Increment(n) ==
    LET Value(negative, double) ==
            IF double.infinite THEN Infinity(negative)
            ELSE Finite(negative, double.digits)
        After(next) == Value(next.negative, Rounded(next.digits))
    IN  IF n.nan \/ n.infinite THEN n ELSE After(Succ(n))

\* `${n}` of a number: the fewest digits that give the number back, written
\* out in full below 10^21 and with an exponent from there on
NumToStr(n) ==
    LET ds == n.digits
        len == Len(ds)
        Text(xs) == [i \in 1..Len(xs) |-> Digits[xs[i] + 1]]
        Zeros(m) == [i \in 1..m |-> 0]
        \* the first m digits, and the number one above them
        Low(m) == SubSeq(ds, 1, m)
        High(m) == Succ(Finite(FALSE, Low(m))).digits
        Gives(xs) == Rounded(xs) = [infinite |-> FALSE, digits |-> ds]
        LowGives(m) == Gives(Low(m) \o Zeros(len - m))
        HighGives(m) == Gives(High(m) \o Zeros(len - m))
        Least(few) == CHOOSE m \in few : \A i \in few : m <= i
        \* the digits cut off, against one half: -1 below, 0 at, 1 above
        Half(rest) ==
            IF rest = <<>> \/ rest[1] < 5 THEN -1
            ELSE IF rest[1] > 5 \/ \E i \in 2..Len(rest) : rest[i] # 0 THEN 1
            ELSE 0
        TakesHigh(k, half) ==
            /\ HighGives(k)
            /\ \/ ~LowGives(k)
               \/ half = 1
               \/ half = 0 /\ ds[k] % 2 = 1
        \* the digits that count, and the number of digits before the point
        Written(significant, point) ==
            IF point <= 21
            THEN Text(significant \o Zeros(point - Len(significant)))
            ELSE <<Digits[significant[1] + 1]>>
                 \o (IF Len(significant) > 1
                     THEN <<".">> \o Text(SubSeq(significant, 2, Len(significant)))
                     ELSE <<>>)
                 \o <<"e", "+">> \o NatToStr(point - 1)
        Cut(k, s) ==
            Written(SubSeq(s, 1, CHOOSE i \in 1..Len(s) :
                                    /\ s[i] # 0
                                    /\ \A j \in (i + 1)..Len(s) : s[j] = 0),
                    IF Len(s) > k THEN len + 1 ELSE len)
        \* k digits are the fewest that give the number back
        Shortest(k) ==
            Cut(k, IF TakesHigh(k, Half(SubSeq(ds, k + 1, len))) THEN High(k) ELSE Low(k))
        magnitude ==
            IF len <= 15 THEN Text(ds)
            ELSE Shortest(Least({m \in 1..(IF len < 17 THEN len ELSE 17) :
                                    LowGives(m) \/ HighGives(m)}))
    IN  IF n.nan THEN <<"N", "a", "N">>
        ELSE IF n.infinite
        THEN (IF n.negative THEN <<"-">> ELSE <<>>)
             \o <<"I", "n", "f", "i", "n", "i", "t", "y">>
        ELSE (IF n.negative THEN <<"-">> ELSE <<>>) \o magnitude

\* s.split(sep) for a one-character separator: the pieces between one
\* separator and the next
Split(s, sep) ==
    LET at == SelectSeq([i \in 1..Len(s) |-> i], LAMBDA i : s[i] = sep)
        from(k) == IF k = 1 THEN 1 ELSE at[k - 1] + 1
        to(k) == IF k > Len(at) THEN Len(s) ELSE at[k] - 1
    IN  [k \in 1..(Len(at) + 1) |-> SubSeq(s, from(k), to(k))] \o <<>>

\* The characters of a piece of text
Chars(str) == [i \in 1..Len(str) |-> SubSeq(str, i, i)] \o <<>>

\* The strings of ss from the lo-th to the hi-th, one after the other
RECURSIVE Joined(_, _, _)
Joined(ss, lo, hi) ==
    IF lo > hi THEN <<>>
    ELSE IF lo = hi THEN ss[lo]
    ELSE Joined(ss, lo, (lo + hi) \div 2) \o Joined(ss, (lo + hi) \div 2 + 1, hi)

\* lines.join('\n')
Join(lines) ==
    Joined([k \in 1..(2 * Len(lines) - 1) |->
                IF k % 2 = 1 THEN lines[(k + 1) \div 2] ELSE <<"\n">>],
           1, 2 * Len(lines) - 1)

\* s.includes(c) for a one-character c
Includes(s, c) == \E i \in 1..Len(s) : s[i] = c

\* a.localeCompare(b): negative, zero or positive, decided at the first
\* place where the two differ
LocaleCompare(a, b) ==
    LET \* the collation order of the characters that occur in advisory
        \* identifiers
        CharRank(c) ==
            CHOOSE k \in 1..15 :
               <<"-", "0", "1", "2", "3", "4", "5", "6", "7", "8", "9",
                 "A", "C", "E", "V">>[k] = c
        shorter == IF Len(a) < Len(b) THEN Len(a) ELSE Len(b)
        differs == {i \in 1..shorter : a[i] # b[i]}
        i == CHOOSE k \in differs : \A j \in differs : k <= j
    IN  IF differs = {}
        THEN (IF Len(a) < Len(b) THEN -1 ELSE IF Len(a) > Len(b) THEN 1 ELSE 0)
        ELSE IF CharRank(a[i]) < CharRank(b[i]) THEN -1 ELSE 1

(***************************************************************************)
(* The release feed (interfaces ReleaseChannel, Release, Sdk, Cve)          *)
(***************************************************************************)

\* A list-valued JSON property that may be null
NullList == [isNull |-> TRUE, items |-> <<>>]

ListOf(s) == [isNull |-> FALSE, items |-> s]

\* mapCves
MapCves(cves) ==
    [i \in 1..Len(cves) |-> [id |-> cves[i].cveId, url |-> cves[i].cveUrl]]

\* Array.prototype.sort with (a, b) => a.id.localeCompare(b.id); the sort is stable
RECURSIVE InsertById(_, _)
InsertById(x, s) ==
    IF Len(s) = 0 THEN <<x>>
    ELSE IF LocaleCompare(x.id, s[Len(s)].id) >= 0
         THEN Append(s, x)
         ELSE Append(InsertById(x, SubSeq(s, 1, Len(s) - 1)), s[Len(s)])

RECURSIVE SortFrom(_, _, _)
SortFrom(s, i, acc) ==
    IF i > Len(s) THEN acc ELSE SortFrom(s, i + 1, InsertById(s[i], acc))

\* Mutant: the list is returned in the order it was gathered
SortById_Unsorted(s) == s

SortById(s) == SortFrom(s, 1, <<>>)

Throw(msg, arg) == [ok |-> FALSE, error |-> [message |-> msg, arg |-> arg]]

Return(v) == [ok |-> TRUE, value |-> v]

\* The releases whose primary SDK is sdkVersion (the first filter)
PrimaryMatches(sdkVersion, channel) ==
    SelectSeq(channel.releases, LAMBDA info : info.sdk.version = sdkVersion)

\* The releases that list sdkVersion among their sdks (the second filter)
AlternateMatches(sdkVersion, channel) ==
    SelectSeq(channel.releases,
              LAMBDA info :
                 /\ ~info.sdks.isNull
                 /\ \E i \in 1..Len(info.sdks.items) :
                       info.sdks.items[i].version = sdkVersion)

\* The first entry of info.sdks with the version: what the callback assigns to foundSdk
FirstAlternate(info, sdkVersion) ==
    LET i == CHOOSE k \in 1..Len(info.sdks.items) :
                 /\ info.sdks.items[k].version = sdkVersion
                 /\ \A j \in 1..(k - 1) : info.sdks.items[j].version # sdkVersion
    IN  info.sdks.items[i]

\* Mutant: the SDK version is read from the release's primary descriptor
ReleaseInfoOf_PrimaryVersion(release, foundSdk) ==
    [releaseNotes   |-> release.releaseNotes,
     runtimeVersion |-> release.runtime.version,
     sdkVersion     |-> release.sdk.version,
     security       |-> release.security,
     securityIssues |-> IF release.security /\ ~release.cveList.isNull
                        THEN MapCves(release.cveList.items)
                        ELSE <<>>]

\* The object literal of lines 329-342: the ReleaseInfo of a release and the
\* SDK found for it
ReleaseInfoOf(release, foundSdk) ==
    [releaseNotes   |-> release.releaseNotes,
     runtimeVersion |-> release.runtime.version,
     sdkVersion     |-> foundSdk.version,
     security       |-> release.security,
     securityIssues |-> IF release.security /\ ~release.cveList.isNull
                        THEN MapCves(release.cveList.items)
                        ELSE <<>>]

\* Mutant: several primary matches are accepted and the first one is used
GetReleaseForSdk_FirstOfMany(sdkVersion, channel) ==
    LET primary == PrimaryMatches(sdkVersion, channel)
        alternates == AlternateMatches(sdkVersion, channel)
    IN  IF Len(primary) >= 1
        THEN Return(ReleaseInfoOf(primary[1], primary[1].sdk))
        ELSE IF Len(alternates) >= 1
        THEN Return(ReleaseInfoOf(alternates[1],
                        FirstAlternate(alternates[Len(alternates)], sdkVersion)))
        ELSE Throw("Failed to find release for .NET SDK version", sdkVersion)

\* getReleaseForSdk
GetReleaseForSdk(sdkVersion, channel) ==
    LET primary == PrimaryMatches(sdkVersion, channel)
        alternates == AlternateMatches(sdkVersion, channel)
        releasesForSdk ==
            IF Len(primary) = 1 THEN primary
            ELSE IF Len(primary) < 1 THEN alternates
            ELSE primary
        found == \/ Len(primary) = 1
                 \/ Len(primary) < 1 /\ Len(alternates) >= 1
        \* the callback overwrites foundSdk for every release it keeps
        foundSdk ==
            IF Len(primary) = 1 THEN primary[1].sdk
            ELSE FirstAlternate(alternates[Len(alternates)], sdkVersion)
    IN  IF Len(releasesForSdk) < 1 \/ ~found
        THEN Throw("Failed to find release for .NET SDK version", sdkVersion)
        ELSE Return(ReleaseInfoOf(releasesForSdk[1], foundSdk))

\* channel.releases.find((p) => p.runtime.version === version)
FindByRuntime(channel, version) ==
    LET hits == SelectSeq(channel.releases, LAMBDA p : p.runtime.version = version)
    IN  IF Len(hits) = 0
        THEN [found |-> FALSE]
        ELSE [found |-> TRUE, release |-> hits[1]]

\* `${versionMajor}.${versionMinor}.${patch}`
PatchVersion(major, minor, patch) ==
    NumToStr(major) \o <<".">> \o NumToStr(minor) \o <<".">> \o NumToStr(patch)

\* One pass of the loop body. acc carries result.security and
\* result.securityIssues, whether concat has replaced the array that
\* latest.securityIssues also names, and the versions looked up so far.
ScanStep(channel, version, acc) ==
    LET hit == FindByRuntime(channel, version)
        seen == [acc EXCEPT !.lookups = Append(@, version)]
    IN  IF ~hit.found
        THEN seen
        ELSE [seen EXCEPT
                !.security = @ \/ hit.release.security,
                !.securityIssues =
                    IF hit.release.cveList.isNull
                    THEN @
                    ELSE @ \o MapCves(hit.release.cveList.items),
                !.replaced = @ \/ ~hit.release.cveList.isNull]

\* Up to n passes of the loop from the patch and the accumulator of at: the
\* first half of them, then the rest from where those ended
RECURSIVE Passes(_, _, _, _, _, _)
Passes(channel, major, minor, latestPatch, at, n) ==
    IF ~NumLess(at.patch, latestPatch) THEN at
    ELSE IF n = 1
    THEN [patch |-> Increment(at.patch),
          acc |-> ScanStep(channel, PatchVersion(major, minor, at.patch), at.acc)]
    ELSE LET half == Passes(channel, major, minor, latestPatch, at, n \div 2)
         IN  IF Len(half.acc.lookups) > 0
             THEN Passes(channel, major, minor, latestPatch, half, n - n \div 2)
             ELSE half

\* The loop of line 51 comes to an end from this patch. From -2^53 to 2^53
\* patch++ adds one exactly, so the patch comes to the latest patch or to
\* 2^53; beyond, it gives the nearest double, and where that is the patch
\* itself, below the latest patch, the loop goes on for ever.
RECURSIVE LoopEnds(_, _)
LoopEnds(patch, latestPatch) ==
    LET two53 == <<9, 0, 0, 7, 1, 9, 9, 2, 5, 4, 7, 4, 0, 9, 9, 2>>
        Goes(next) == next # patch /\ LoopEnds(next, latestPatch)
    IN  IF ~NumLess(patch, latestPatch) THEN TRUE
        ELSE IF /\ NumLess(patch, Finite(FALSE, two53))
                /\ ~NumLess(patch, Finite(TRUE, two53))
        THEN LoopEnds(IF NumLess(Finite(FALSE, two53), latestPatch)
                      THEN Finite(FALSE, two53)
                      ELSE latestPatch,
                      latestPatch)
        ELSE Goes(Increment(patch))

\* for (let patch = currentPatch; patch < latestPatch; patch++)
RECURSIVE GapScan(_, _, _, _, _, _)
GapScan(channel, major, minor, patch, latestPatch, acc) ==
    LET \* the passes Passes makes before GapScan takes the loop up again
        stride == 1048576
        Resumed(at) ==
            IF NumLess(at.patch, latestPatch)
            THEN GapScan(channel, major, minor, at.patch, latestPatch, at.acc)
            ELSE at.acc
    IN  Resumed(Passes(channel, major, minor, latestPatch,
                       [patch |-> patch, acc |-> acc], stride))

\* The call is made and never comes back
NeverReturns == [ok |-> FALSE, error |-> [message |-> "never returns", arg |-> <<>>]]

\* Mutant: only the latest version is tested for a preview suffix
IsStablePair_LatestOnly(currentParts, latestParts) ==
    ~Includes(latestParts[3], "-")

\* Neither patch segment is a preview
IsStablePair(currentParts, latestParts) ==
    ~Includes(currentParts[3], "-") /\ ~Includes(latestParts[3], "-")

\* Mutant: the scan also runs for a patch delta of one
PatchGapExceedsOne_AtLeastOne(currentPatch, latestPatch) ==
    /\ ~currentPatch.nan
    /\ ~latestPatch.nan
    /\ IF currentPatch.infinite \/ latestPatch.infinite
       THEN \/ /\ latestPatch.infinite /\ ~latestPatch.negative
               /\ ~(currentPatch.infinite /\ ~currentPatch.negative)
            \/ /\ currentPatch.infinite /\ currentPatch.negative
               /\ ~(latestPatch.infinite /\ latestPatch.negative)
       ELSE NumLess(currentPatch, latestPatch)

\* patchDelta > 1, where a NaN operand makes the difference NaN and the
\* comparison false, as the difference of equal infinities does; the
\* difference of two integers exceeds 1 when the latest exceeds the integer
\* after the current
PatchGapExceedsOne(currentPatch, latestPatch) ==
    /\ ~currentPatch.nan
    /\ ~latestPatch.nan
    /\ IF currentPatch.infinite \/ latestPatch.infinite
       THEN \/ /\ latestPatch.infinite /\ ~latestPatch.negative
               /\ ~(currentPatch.infinite /\ ~currentPatch.negative)
            \/ /\ currentPatch.infinite /\ currentPatch.negative
               /\ ~(latestPatch.infinite /\ latestPatch.negative)
       ELSE NumLess(Succ(currentPatch), latestPatch)

\* The second segment, or undefined
MinorOf(parts) == IF Len(parts) >= 2 THEN ParseInt(parts[2]) ELSE NaN

\* Lines 30-66 of getLatestRelease, for the resolved current and latest
\* ReleaseInfo. The value is the SdkVersions the function returns; lookups
\* records the versions the gap scan searched for.
DeltaOf(current, latest, channel) ==
    LET currentParts == Split(current.runtimeVersion, ".")
        latestParts == Split(latest.runtimeVersion, ".")
        seed == [security       |-> latest.security,
                 securityIssues |-> latest.securityIssues,
                 replaced       |-> FALSE,
                 lookups        |-> <<>>]
        Returned(acc, sorted) ==
            [ok |-> TRUE,
             value |->
                [current |-> current,
                 \* sort works in place: without a concat the array is latest's own
                 latest |-> IF acc.replaced
                            THEN latest
                            ELSE [latest EXCEPT !.securityIssues = sorted],
                 security |-> acc.security,
                 securityIssues |-> sorted],
             lookups |-> acc.lookups]
        Sorted(acc) == Returned(acc, SortById(acc.securityIssues))
        Looped(currentPatch, latestPatch, scans) ==
            IF scans /\ ~LoopEnds(currentPatch, latestPatch) THEN NeverReturns
            ELSE Sorted(IF scans
                        THEN GapScan(channel, ParseInt(currentParts[1]),
                                     MinorOf(currentParts), currentPatch, latestPatch,
                                     seed)
                        ELSE seed)
        Between(currentPatch, latestPatch) ==
            Looped(currentPatch, latestPatch,
                   /\ IsStablePair(currentParts, latestParts)
                   /\ PatchGapExceedsOne(currentPatch, latestPatch))
    IN  \* includes() of an undefined third segment
        IF \/ Len(currentParts) < 3
           \/ ~Includes(currentParts[3], "-") /\ Len(latestParts) < 3
        THEN Throw("TypeError", current.runtimeVersion)
        ELSE Between(ParseInt(currentParts[3]), ParseInt(latestParts[3]))

\* Mutant: a latest-sdk value that cannot be resolved falls back to the current release
GetLatestRelease_LatestFallsBack(currentSdkVersion, channel) ==
    LET cur == GetReleaseForSdk(currentSdkVersion, channel)
        lat == GetReleaseForSdk(channel.latestSdk, channel)
    IN  IF ~cur.ok THEN cur
        ELSE IF ~lat.ok THEN DeltaOf(cur.value, cur.value, channel)
        ELSE DeltaOf(cur.value, lat.value, channel)

\* getLatestRelease
GetLatestRelease(currentSdkVersion, channel) ==
    LET cur == GetReleaseForSdk(currentSdkVersion, channel)
        lat == GetReleaseForSdk(channel.latestSdk, channel)
    IN  IF ~cur.ok THEN cur
        ELSE IF ~lat.ok THEN lat
        ELSE DeltaOf(cur.value, lat.value, channel)

\* The second segment of a split version, or undefined
Segment(parts, i) == IF Len(parts) >= i THEN parts[i] ELSE <<>>

\* a > b on parseInt results, false when either is NaN
NumGreater(a, b) == NumLess(b, a)

UpdateKind_MinorFirst(currentSdkVersion, latestSdkVersion) ==
    LET currentVersion == Split(currentSdkVersion, ".")
        latestVersion == Split(latestSdkVersion, ".")
    IN  IF NumGreater(ParseInt(Segment(latestVersion, 2)),
                      ParseInt(Segment(currentVersion, 2)))
        THEN Chars("minor")
        ELSE IF NumGreater(ParseInt(latestVersion[1]), ParseInt(currentVersion[1]))
        THEN Chars("major")
        ELSE Chars("patch")

\* The updateKind of generateCommitMessage
UpdateKind(currentSdkVersion, latestSdkVersion) ==
    LET currentVersion == Split(currentSdkVersion, ".")
        latestVersion == Split(latestSdkVersion, ".")
    IN  IF NumGreater(ParseInt(latestVersion[1]), ParseInt(currentVersion[1]))
        THEN Chars("major")
        ELSE IF NumGreater(ParseInt(Segment(latestVersion, 2)),
                           ParseInt(Segment(currentVersion, 2)))
        THEN Chars("minor")
        ELSE Chars("patch")

\* generateCommitMessage
GenerateCommitMessage(currentSdkVersion, latestSdkVersion) ==
    LET updateKind == UpdateKind(currentSdkVersion, latestSdkVersion)
        messageLines ==
            <<Chars("Update .NET SDK"),
              <<>>,
              Chars("Update .NET SDK to version ") \o latestSdkVersion \o Chars("."),
              <<>>,
              Chars("---"),
              Chars("updated-dependencies:"),
              Chars("- dependency-name: Microsoft.NET.Sdk"),
              Chars("  dependency-type: direct:production"),
              Chars("  update-type: version-update:semver-") \o updateKind,
              Chars("..."),
              <<>>,
              <<>> >>
    IN  Join(messageLines)

\* generatePullRequestBody: what the body says
GeneratePullRequestBody(update) ==
    [sdkVersion |-> update.latest.sdkVersion,
     sameRuntime |-> update.latest.runtimeVersion = update.current.runtimeVersion,
     runtimes |-> <<update.current.runtimeVersion, update.latest.runtimeVersion>>,
     issues |-> IF update.security /\ Len(update.securityIssues) > 0
                THEN update.securityIssues
                ELSE <<>>]

\* The letters that toLowerCase changes to one character, and below, in the
\* same order, what it changes them to, as of Unicode 17.0
UpperCase ==
    <<"A", "B", "C", "D", "E", "F", "G", "H", "I", "J", "K", "L", "M", "N", "O", "P", "Q", "R",
      "S", "T", "U", "V", "W", "X", "Y", "Z", "À", "Á", "Â", "Ã", "Ä", "Å", "Æ", "Ç", "È", "É",
      "Ê", "Ë", "Ì", "Í", "Î", "Ï", "Ð", "Ñ", "Ò", "Ó", "Ô", "Õ", "Ö", "Ø", "Ù", "Ú", "Û", "Ü",
      "Ý", "Þ", "U+0100", "U+0102", "U+0104", "U+0106", "U+0108", "U+010A", "U+010C", "U+010E",
      "U+0110", "U+0112", "U+0114", "U+0116", "U+0118", "U+011A", "U+011C", "U+011E", "U+0120",
      "U+0122", "U+0124", "U+0126", "U+0128", "U+012A", "U+012C", "U+012E", "U+0132", "U+0134",
      "U+0136", "U+0139", "U+013B", "U+013D", "U+013F", "U+0141", "U+0143", "U+0145", "U+0147",
      "U+014A", "U+014C", "U+014E", "U+0150", "U+0152", "U+0154", "U+0156", "U+0158", "U+015A",
      "U+015C", "U+015E", "U+0160", "U+0162", "U+0164", "U+0166", "U+0168", "U+016A", "U+016C",
      "U+016E", "U+0170", "U+0172", "U+0174", "U+0176", "U+0178", "U+0179", "U+017B", "U+017D",
      "Ɓ", "Ƃ", "Ƅ", "Ɔ", "Ƈ", "Ɖ", "Ɗ", "Ƌ", "Ǝ", "Ə", "Ɛ", "Ƒ", "Ɠ", "Ɣ", "Ɩ", "Ɨ", "Ƙ", "Ɯ",
      "Ɲ", "Ɵ", "Ơ", "Ƣ", "Ƥ", "Ʀ", "Ƨ", "Ʃ", "Ƭ", "Ʈ", "Ư", "Ʊ", "Ʋ", "Ƴ", "Ƶ", "Ʒ", "Ƹ", "Ƽ",
      "Ǆ", "ǅ", "Ǉ", "ǈ", "Ǌ", "ǋ", "Ǎ", "Ǐ", "Ǒ", "Ǔ", "Ǖ", "Ǘ", "Ǚ", "Ǜ", "Ǟ", "Ǡ", "Ǣ", "Ǥ",
      "Ǧ", "Ǩ", "Ǫ", "Ǭ", "Ǯ", "Ǳ", "ǲ", "Ǵ", "Ƕ", "Ƿ", "Ǹ", "Ǻ", "Ǽ", "Ǿ", "U+0200", "U+0202",
      "U+0204", "U+0206", "U+0208", "U+020A", "U+020C", "U+020E", "U+0210", "U+0212", "U+0214",
      "U+0216", "U+0218", "U+021A", "U+021C", "U+021E", "U+0220", "U+0222", "U+0224", "U+0226",
      "U+0228", "U+022A", "U+022C", "U+022E", "U+0230", "U+0232", "U+023A", "U+023B", "U+023D",
      "U+023E", "U+0241", "U+0243", "U+0244", "U+0245", "U+0246", "U+0248", "U+024A", "U+024C",
      "U+024E", "U+0370", "U+0372", "U+0376", "U+037F", "Ά", "Έ", "Ή", "Ί", "Ό", "Ύ", "Ώ", "Α",
      "Β", "Γ", "Δ", "Ε", "Ζ", "Η", "Θ", "Ι", "Κ", "Λ", "Μ", "Ν", "Ξ", "Ο", "Π", "Ρ", "Σ", "Τ",
      "Υ", "Φ", "Χ", "Ψ", "Ω", "Ϊ", "Ϋ", "Ϗ", "Ϙ", "Ϛ", "Ϝ", "Ϟ", "Ϡ", "Ϣ", "Ϥ", "Ϧ", "Ϩ", "Ϫ",
      "Ϭ", "Ϯ", "ϴ", "Ϸ", "Ϲ", "Ϻ", "Ͻ", "Ͼ", "Ͽ", "U+0400", "U+0401", "U+0402", "U+0403",
      "U+0404", "U+0405", "U+0406", "U+0407", "U+0408", "U+0409", "U+040A", "U+040B", "U+040C",
      "U+040D", "U+040E", "U+040F", "U+0410", "U+0411", "U+0412", "U+0413", "U+0414", "U+0415",
      "U+0416", "U+0417", "U+0418", "U+0419", "U+041A", "U+041B", "U+041C", "U+041D", "U+041E",
      "U+041F", "U+0420", "U+0421", "U+0422", "U+0423", "U+0424", "U+0425", "U+0426", "U+0427",
      "U+0428", "U+0429", "U+042A", "U+042B", "U+042C", "U+042D", "U+042E", "U+042F", "U+0460",
      "U+0462", "U+0464", "U+0466", "U+0468", "U+046A", "U+046C", "U+046E", "U+0470", "U+0472",
      "U+0474", "U+0476", "U+0478", "U+047A", "U+047C", "U+047E", "Ҁ", "Ҋ", "Ҍ", "Ҏ", "Ґ", "Ғ",
      "Ҕ", "Җ", "Ҙ", "Қ", "Ҝ", "Ҟ", "Ҡ", "Ң", "Ҥ", "Ҧ", "Ҩ", "Ҫ", "Ҭ", "Ү", "Ұ", "Ҳ", "Ҵ", "Ҷ",
      "Ҹ", "Һ", "Ҽ", "Ҿ", "Ӏ", "Ӂ", "Ӄ", "Ӆ", "Ӈ", "Ӊ", "Ӌ", "Ӎ", "Ӑ", "Ӓ", "Ӕ", "Ӗ", "Ә", "Ӛ",
      "Ӝ", "Ӟ", "Ӡ", "Ӣ", "Ӥ", "Ӧ", "Ө", "Ӫ", "Ӭ", "Ӯ", "Ӱ", "Ӳ", "Ӵ", "Ӷ", "Ӹ", "Ӻ", "Ӽ", "Ӿ",
      "U+0500", "U+0502", "U+0504", "U+0506", "U+0508", "U+050A", "U+050C", "U+050E", "U+0510",
      "U+0512", "U+0514", "U+0516", "U+0518", "U+051A", "U+051C", "U+051E", "U+0520", "U+0522",
      "U+0524", "U+0526", "U+0528", "U+052A", "U+052C", "U+052E", "U+0531", "U+0532", "U+0533",
      "U+0534", "U+0535", "U+0536", "U+0537", "U+0538", "U+0539", "U+053A", "U+053B", "U+053C",
      "U+053D", "U+053E", "U+053F", "U+0540", "U+0541", "U+0542", "U+0543", "U+0544", "U+0545",
      "U+0546", "U+0547", "U+0548", "U+0549", "U+054A", "U+054B", "U+054C", "U+054D", "U+054E",
      "U+054F", "U+0550", "U+0551", "U+0552", "U+0553", "U+0554", "U+0555", "U+0556", "Ⴀ", "Ⴁ",
      "Ⴂ", "Ⴃ", "Ⴄ", "Ⴅ", "Ⴆ", "Ⴇ", "Ⴈ", "Ⴉ", "Ⴊ", "Ⴋ", "Ⴌ", "Ⴍ", "Ⴎ", "Ⴏ", "Ⴐ", "Ⴑ", "Ⴒ", "Ⴓ",
      "Ⴔ", "Ⴕ", "Ⴖ", "Ⴗ", "Ⴘ", "Ⴙ", "Ⴚ", "Ⴛ", "Ⴜ", "Ⴝ", "Ⴞ", "Ⴟ", "Ⴠ", "Ⴡ", "Ⴢ", "Ⴣ", "Ⴤ", "Ⴥ",
      "Ⴧ", "Ⴭ", "Ꭰ", "Ꭱ", "Ꭲ", "Ꭳ", "Ꭴ", "Ꭵ", "Ꭶ", "Ꭷ", "Ꭸ", "Ꭹ", "Ꭺ", "Ꭻ", "Ꭼ", "Ꭽ", "Ꭾ", "Ꭿ",
      "Ꮀ", "Ꮁ", "Ꮂ", "Ꮃ", "Ꮄ", "Ꮅ", "Ꮆ", "Ꮇ", "Ꮈ", "Ꮉ", "Ꮊ", "Ꮋ", "Ꮌ", "Ꮍ", "Ꮎ", "Ꮏ", "Ꮐ", "Ꮑ",
      "Ꮒ", "Ꮓ", "Ꮔ", "Ꮕ", "Ꮖ", "Ꮗ", "Ꮘ", "Ꮙ", "Ꮚ", "Ꮛ", "Ꮜ", "Ꮝ", "Ꮞ", "Ꮟ", "Ꮠ", "Ꮡ", "Ꮢ", "Ꮣ",
      "Ꮤ", "Ꮥ", "Ꮦ", "Ꮧ", "Ꮨ", "Ꮩ", "Ꮪ", "Ꮫ", "Ꮬ", "Ꮭ", "Ꮮ", "Ꮯ", "Ꮰ", "Ꮱ", "Ꮲ", "Ꮳ", "Ꮴ", "Ꮵ",
      "Ꮶ", "Ꮷ", "Ꮸ", "Ꮹ", "Ꮺ", "Ꮻ", "Ꮼ", "Ꮽ", "Ꮾ", "Ꮿ", "Ᏸ", "Ᏹ", "Ᏺ", "Ᏻ", "Ᏼ", "Ᏽ", "Ᲊ", "Ა",
      "Ბ", "Გ", "Დ", "Ე", "Ვ", "Ზ", "Თ", "Ი", "Კ", "Ლ", "Მ", "Ნ", "Ო", "Პ", "Ჟ", "Რ", "Ს", "Ტ",
      "Უ", "Ფ", "Ქ", "Ღ", "Ყ", "Შ", "Ჩ", "Ც", "Ძ", "Წ", "Ჭ", "Ხ", "Ჯ", "Ჰ", "Ჱ", "Ჲ", "Ჳ", "Ჴ",
      "Ჵ", "Ჶ", "Ჷ", "Ჸ", "Ჹ", "Ჺ", "Ჽ", "Ჾ", "Ჿ", "U+1E00", "U+1E02", "U+1E04", "U+1E06",
      "U+1E08", "U+1E0A", "U+1E0C", "U+1E0E", "U+1E10", "U+1E12", "U+1E14", "U+1E16", "U+1E18",
      "U+1E1A", "U+1E1C", "U+1E1E", "U+1E20", "U+1E22", "U+1E24", "U+1E26", "U+1E28", "U+1E2A",
      "U+1E2C", "U+1E2E", "U+1E30", "U+1E32", "U+1E34", "U+1E36", "U+1E38", "U+1E3A", "U+1E3C",
      "U+1E3E", "U+1E40", "U+1E42", "U+1E44", "U+1E46", "U+1E48", "U+1E4A", "U+1E4C", "U+1E4E",
      "U+1E50", "U+1E52", "U+1E54", "U+1E56", "U+1E58", "U+1E5A", "U+1E5C", "U+1E5E", "U+1E60",
      "U+1E62", "U+1E64", "U+1E66", "U+1E68", "U+1E6A", "U+1E6C", "U+1E6E", "U+1E70", "U+1E72",
      "U+1E74", "U+1E76", "U+1E78", "U+1E7A", "U+1E7C", "U+1E7E", "Ẁ", "Ẃ", "Ẅ", "Ẇ", "Ẉ", "Ẋ",
      "Ẍ", "Ẏ", "Ẑ", "Ẓ", "Ẕ", "ẞ", "Ạ", "Ả", "Ấ", "Ầ", "Ẩ", "Ẫ", "Ậ", "Ắ", "Ằ", "Ẳ", "Ẵ", "Ặ",
      "Ẹ", "Ẻ", "Ẽ", "Ế", "Ề", "Ể", "Ễ", "Ệ", "Ỉ", "Ị", "Ọ", "Ỏ", "Ố", "Ồ", "Ổ", "Ỗ", "Ộ", "Ớ",
      "Ờ", "Ở", "Ỡ", "Ợ", "Ụ", "Ủ", "Ứ", "Ừ", "Ử", "Ữ", "Ự", "Ỳ", "Ỵ", "Ỷ", "Ỹ", "Ỻ", "Ỽ", "Ỿ",
      "U+1F08", "U+1F09", "U+1F0A", "U+1F0B", "U+1F0C", "U+1F0D", "U+1F0E", "U+1F0F", "U+1F18",
      "U+1F19", "U+1F1A", "U+1F1B", "U+1F1C", "U+1F1D", "U+1F28", "U+1F29", "U+1F2A", "U+1F2B",
      "U+1F2C", "U+1F2D", "U+1F2E", "U+1F2F", "U+1F38", "U+1F39", "U+1F3A", "U+1F3B", "U+1F3C",
      "U+1F3D", "U+1F3E", "U+1F3F", "U+1F48", "U+1F49", "U+1F4A", "U+1F4B", "U+1F4C", "U+1F4D",
      "U+1F59", "U+1F5B", "U+1F5D", "U+1F5F", "U+1F68", "U+1F69", "U+1F6A", "U+1F6B", "U+1F6C",
      "U+1F6D", "U+1F6E", "U+1F6F", "ᾈ", "ᾉ", "ᾊ", "ᾋ", "ᾌ", "ᾍ", "ᾎ", "ᾏ", "ᾘ", "ᾙ", "ᾚ", "ᾛ",
      "ᾜ", "ᾝ", "ᾞ", "ᾟ", "ᾨ", "ᾩ", "ᾪ", "ᾫ", "ᾬ", "ᾭ", "ᾮ", "ᾯ", "Ᾰ", "Ᾱ", "Ὰ", "Ά", "ᾼ", "Ὲ",
      "Έ", "Ὴ", "Ή", "ῌ", "Ῐ", "Ῑ", "Ὶ", "Ί", "Ῠ", "Ῡ", "Ὺ", "Ύ", "Ῥ", "Ὸ", "Ό", "Ὼ", "Ώ", "ῼ",
      "U+2126", "U+212A", "U+212B", "U+2132", "U+2160", "U+2161", "U+2162", "U+2163", "U+2164",
      "U+2165", "U+2166", "U+2167", "U+2168", "U+2169", "U+216A", "U+216B", "U+216C", "U+216D",
      "U+216E", "U+216F", "Ↄ", "Ⓐ", "Ⓑ", "Ⓒ", "Ⓓ", "Ⓔ", "Ⓕ", "Ⓖ", "Ⓗ", "Ⓘ", "Ⓙ", "Ⓚ", "Ⓛ", "Ⓜ",
      "Ⓝ", "Ⓞ", "Ⓟ", "Ⓠ", "Ⓡ", "Ⓢ", "Ⓣ", "Ⓤ", "Ⓥ", "Ⓦ", "Ⓧ", "Ⓨ", "Ⓩ", "U+2C00", "U+2C01",
      "U+2C02", "U+2C03", "U+2C04", "U+2C05", "U+2C06", "U+2C07", "U+2C08", "U+2C09", "U+2C0A",
      "U+2C0B", "U+2C0C", "U+2C0D", "U+2C0E", "U+2C0F", "U+2C10", "U+2C11", "U+2C12", "U+2C13",
      "U+2C14", "U+2C15", "U+2C16", "U+2C17", "U+2C18", "U+2C19", "U+2C1A", "U+2C1B", "U+2C1C",
      "U+2C1D", "U+2C1E", "U+2C1F", "U+2C20", "U+2C21", "U+2C22", "U+2C23", "U+2C24", "U+2C25",
      "U+2C26", "U+2C27", "U+2C28", "U+2C29", "U+2C2A", "U+2C2B", "U+2C2C", "U+2C2D", "U+2C2E",
      "U+2C2F", "U+2C60", "U+2C62", "U+2C63", "U+2C64", "U+2C67", "U+2C69", "U+2C6B", "U+2C6D",
      "U+2C6E", "U+2C6F", "U+2C70", "U+2C72", "U+2C75", "U+2C7E", "U+2C7F", "Ⲁ", "Ⲃ", "Ⲅ", "Ⲇ",
      "Ⲉ", "Ⲋ", "Ⲍ", "Ⲏ", "Ⲑ", "Ⲓ", "Ⲕ", "Ⲗ", "Ⲙ", "Ⲛ", "Ⲝ", "Ⲟ", "Ⲡ", "Ⲣ", "Ⲥ", "Ⲧ", "Ⲩ", "Ⲫ",
      "Ⲭ", "Ⲯ", "Ⲱ", "Ⲳ", "Ⲵ", "Ⲷ", "Ⲹ", "Ⲻ", "Ⲽ", "Ⲿ", "Ⳁ", "Ⳃ", "Ⳅ", "Ⳇ", "Ⳉ", "Ⳋ", "Ⳍ", "Ⳏ",
      "Ⳑ", "Ⳓ", "Ⳕ", "Ⳗ", "Ⳙ", "Ⳛ", "Ⳝ", "Ⳟ", "Ⳡ", "Ⳣ", "Ⳬ", "Ⳮ", "Ⳳ", "U+A640", "U+A642",
      "U+A644", "U+A646", "U+A648", "U+A64A", "U+A64C", "U+A64E", "U+A650", "U+A652", "U+A654",
      "U+A656", "U+A658", "U+A65A", "U+A65C", "U+A65E", "U+A660", "U+A662", "U+A664", "U+A666",
      "U+A668", "U+A66A", "U+A66C", "Ꚁ", "Ꚃ", "Ꚅ", "Ꚇ", "Ꚉ", "Ꚋ", "Ꚍ", "Ꚏ", "Ꚑ", "Ꚓ", "Ꚕ", "Ꚗ",
      "Ꚙ", "Ꚛ", "U+A722", "U+A724", "U+A726", "U+A728", "U+A72A", "U+A72C", "U+A72E", "U+A732",
      "U+A734", "U+A736", "U+A738", "U+A73A", "U+A73C", "U+A73E", "U+A740", "U+A742", "U+A744",
      "U+A746", "U+A748", "U+A74A", "U+A74C", "U+A74E", "U+A750", "U+A752", "U+A754", "U+A756",
      "U+A758", "U+A75A", "U+A75C", "U+A75E", "U+A760", "U+A762", "U+A764", "U+A766", "U+A768",
      "U+A76A", "U+A76C", "U+A76E", "U+A779", "U+A77B", "U+A77D", "U+A77E", "Ꞁ", "Ꞃ", "Ꞅ", "Ꞇ",
      "Ꞌ", "Ɥ", "Ꞑ", "Ꞓ", "Ꞗ", "Ꞙ", "Ꞛ", "Ꞝ", "Ꞟ", "Ꞡ", "Ꞣ", "Ꞥ", "Ꞧ", "Ꞩ", "Ɦ", "Ɜ", "Ɡ", "Ɬ",
      "Ɪ", "Ʞ", "Ʇ", "Ʝ", "Ꭓ", "Ꞵ", "Ꞷ", "Ꞹ", "Ꞻ", "Ꞽ", "Ꞿ", "Ꟁ", "Ꟃ", "Ꞔ", "Ʂ", "Ᶎ", "Ꟈ", "Ꟊ",
      "Ɤ", "Ꟍ", "꟎", "Ꟑ", "꟒", "꟔", "Ꟗ", "Ꟙ", "Ꟛ", "Ƛ", "Ꟶ", "U+FF21", "U+FF22", "U+FF23",
      "U+FF24", "U+FF25", "U+FF26", "U+FF27", "U+FF28", "U+FF29", "U+FF2A", "U+FF2B", "U+FF2C",
      "U+FF2D", "U+FF2E", "U+FF2F", "U+FF30", "U+FF31", "U+FF32", "U+FF33", "U+FF34", "U+FF35",
      "U+FF36", "U+FF37", "U+FF38", "U+FF39", "U+FF3A", "U+10400", "U+10401", "U+10402",
      "U+10403", "U+10404", "U+10405", "U+10406", "U+10407", "U+10408", "U+10409", "U+1040A",
      "U+1040B", "U+1040C", "U+1040D", "U+1040E", "U+1040F", "U+10410", "U+10411", "U+10412",
      "U+10413", "U+10414", "U+10415", "U+10416", "U+10417", "U+10418", "U+10419", "U+1041A",
      "U+1041B", "U+1041C", "U+1041D", "U+1041E", "U+1041F", "U+10420", "U+10421", "U+10422",
      "U+10423", "U+10424", "U+10425", "U+10426", "U+10427", "U+104B0", "U+104B1", "U+104B2",
      "U+104B3", "U+104B4", "U+104B5", "U+104B6", "U+104B7", "U+104B8", "U+104B9", "U+104BA",
      "U+104BB", "U+104BC", "U+104BD", "U+104BE", "U+104BF", "U+104C0", "U+104C1", "U+104C2",
      "U+104C3", "U+104C4", "U+104C5", "U+104C6", "U+104C7", "U+104C8", "U+104C9", "U+104CA",
      "U+104CB", "U+104CC", "U+104CD", "U+104CE", "U+104CF", "U+104D0", "U+104D1", "U+104D2",
      "U+104D3", "U+10570", "U+10571", "U+10572", "U+10573", "U+10574", "U+10575", "U+10576",
      "U+10577", "U+10578", "U+10579", "U+1057A", "U+1057C", "U+1057D", "U+1057E", "U+1057F",
      "U+10580", "U+10581", "U+10582", "U+10583", "U+10584", "U+10585", "U+10586", "U+10587",
      "U+10588", "U+10589", "U+1058A", "U+1058C", "U+1058D", "U+1058E", "U+1058F", "U+10590",
      "U+10591", "U+10592", "U+10594", "U+10595", "U+10C80", "U+10C81", "U+10C82", "U+10C83",
      "U+10C84", "U+10C85", "U+10C86", "U+10C87", "U+10C88", "U+10C89", "U+10C8A", "U+10C8B",
      "U+10C8C", "U+10C8D", "U+10C8E", "U+10C8F", "U+10C90", "U+10C91", "U+10C92", "U+10C93",
      "U+10C94", "U+10C95", "U+10C96", "U+10C97", "U+10C98", "U+10C99", "U+10C9A", "U+10C9B",
      "U+10C9C", "U+10C9D", "U+10C9E", "U+10C9F", "U+10CA0", "U+10CA1", "U+10CA2", "U+10CA3",
      "U+10CA4", "U+10CA5", "U+10CA6", "U+10CA7", "U+10CA8", "U+10CA9", "U+10CAA", "U+10CAB",
      "U+10CAC", "U+10CAD", "U+10CAE", "U+10CAF", "U+10CB0", "U+10CB1", "U+10CB2", "U+10D50",
      "U+10D51", "U+10D52", "U+10D53", "U+10D54", "U+10D55", "U+10D56", "U+10D57", "U+10D58",
      "U+10D59", "U+10D5A", "U+10D5B", "U+10D5C", "U+10D5D", "U+10D5E", "U+10D5F", "U+10D60",
      "U+10D61", "U+10D62", "U+10D63", "U+10D64", "U+10D65", "U+118A0", "U+118A1", "U+118A2",
      "U+118A3", "U+118A4", "U+118A5", "U+118A6", "U+118A7", "U+118A8", "U+118A9", "U+118AA",
      "U+118AB", "U+118AC", "U+118AD", "U+118AE", "U+118AF", "U+118B0", "U+118B1", "U+118B2",
      "U+118B3", "U+118B4", "U+118B5", "U+118B6", "U+118B7", "U+118B8", "U+118B9", "U+118BA",
      "U+118BB", "U+118BC", "U+118BD", "U+118BE", "U+118BF", "U+16E40", "U+16E41", "U+16E42",
      "U+16E43", "U+16E44", "U+16E45", "U+16E46", "U+16E47", "U+16E48", "U+16E49", "U+16E4A",
      "U+16E4B", "U+16E4C", "U+16E4D", "U+16E4E", "U+16E4F", "U+16E50", "U+16E51", "U+16E52",
      "U+16E53", "U+16E54", "U+16E55", "U+16E56", "U+16E57", "U+16E58", "U+16E59", "U+16E5A",
      "U+16E5B", "U+16E5C", "U+16E5D", "U+16E5E", "U+16E5F", "U+16EA0", "U+16EA1", "U+16EA2",
      "U+16EA3", "U+16EA4", "U+16EA5", "U+16EA6", "U+16EA7", "U+16EA8", "U+16EA9", "U+16EAA",
      "U+16EAB", "U+16EAC", "U+16EAD", "U+16EAE", "U+16EAF", "U+16EB0", "U+16EB1", "U+16EB2",
      "U+16EB3", "U+16EB4", "U+16EB5", "U+16EB6", "U+16EB7", "U+16EB8", "U+1E900", "U+1E901",
      "U+1E902", "U+1E903", "U+1E904", "U+1E905", "U+1E906", "U+1E907", "U+1E908", "U+1E909",
      "U+1E90A", "U+1E90B", "U+1E90C", "U+1E90D", "U+1E90E", "U+1E90F", "U+1E910", "U+1E911",
      "U+1E912", "U+1E913", "U+1E914", "U+1E915", "U+1E916", "U+1E917", "U+1E918", "U+1E919",
      "U+1E91A", "U+1E91B", "U+1E91C", "U+1E91D", "U+1E91E", "U+1E91F", "U+1E920", "U+1E921">>

LowerCase ==
    <<"a", "b", "c", "d", "e", "f", "g", "h", "i", "j", "k", "l", "m", "n", "o", "p", "q", "r",
      "s", "t", "u", "v", "w", "x", "y", "z", "à", "á", "â", "ã", "ä", "å", "æ", "ç", "è", "é",
      "ê", "ë", "ì", "í", "î", "ï", "ð", "ñ", "ò", "ó", "ô", "õ", "ö", "ø", "ù", "ú", "û", "ü",
      "ý", "þ", "U+0101", "U+0103", "U+0105", "U+0107", "U+0109", "U+010B", "U+010D", "U+010F",
      "U+0111", "U+0113", "U+0115", "U+0117", "U+0119", "U+011B", "U+011D", "U+011F", "U+0121",
      "U+0123", "U+0125", "U+0127", "U+0129", "U+012B", "U+012D", "U+012F", "U+0133", "U+0135",
      "U+0137", "U+013A", "U+013C", "U+013E", "U+0140", "U+0142", "U+0144", "U+0146", "U+0148",
      "U+014B", "U+014D", "U+014F", "U+0151", "U+0153", "U+0155", "U+0157", "U+0159", "U+015B",
      "U+015D", "U+015F", "U+0161", "U+0163", "U+0165", "U+0167", "U+0169", "U+016B", "U+016D",
      "U+016F", "U+0171", "U+0173", "U+0175", "U+0177", "ÿ", "U+017A", "U+017C", "U+017E",
      "U+0253", "ƃ", "ƅ", "U+0254", "ƈ", "U+0256", "U+0257", "ƌ", "ǝ", "U+0259", "U+025B", "ƒ",
      "U+0260", "U+0263", "U+0269", "U+0268", "ƙ", "U+026F", "U+0272", "U+0275", "ơ", "ƣ", "ƥ",
      "ʀ", "ƨ", "ʃ", "ƭ", "ʈ", "ư", "ʊ", "ʋ", "ƴ", "ƶ", "ʒ", "ƹ", "ƽ", "ǆ", "ǆ", "ǉ", "ǉ", "ǌ",
      "ǌ", "ǎ", "ǐ", "ǒ", "ǔ", "ǖ", "ǘ", "ǚ", "ǜ", "ǟ", "ǡ", "ǣ", "ǥ", "ǧ", "ǩ", "ǫ", "ǭ", "ǯ",
      "ǳ", "ǳ", "ǵ", "ƕ", "ƿ", "ǹ", "ǻ", "ǽ", "ǿ", "U+0201", "U+0203", "U+0205", "U+0207",
      "U+0209", "U+020B", "U+020D", "U+020F", "U+0211", "U+0213", "U+0215", "U+0217", "U+0219",
      "U+021B", "U+021D", "U+021F", "ƞ", "U+0223", "U+0225", "U+0227", "U+0229", "U+022B",
      "U+022D", "U+022F", "U+0231", "U+0233", "U+2C65", "U+023C", "ƚ", "U+2C66", "U+0242", "ƀ",
      "ʉ", "ʌ", "U+0247", "U+0249", "U+024B", "U+024D", "U+024F", "U+0371", "U+0373", "U+0377",
      "ϳ", "ά", "έ", "ή", "ί", "ό", "ύ", "ώ", "α", "β", "γ", "δ", "ε", "ζ", "η", "θ", "ι", "κ",
      "λ", "μ", "ν", "ξ", "ο", "π", "ρ", "σ", "τ", "υ", "φ", "χ", "ψ", "ω", "ϊ", "ϋ", "ϗ", "ϙ",
      "ϛ", "ϝ", "ϟ", "ϡ", "ϣ", "ϥ", "ϧ", "ϩ", "ϫ", "ϭ", "ϯ", "θ", "ϸ", "ϲ", "ϻ", "U+037B",
      "U+037C", "U+037D", "U+0450", "U+0451", "U+0452", "U+0453", "U+0454", "U+0455", "U+0456",
      "U+0457", "U+0458", "U+0459", "U+045A", "U+045B", "U+045C", "U+045D", "U+045E", "U+045F",
      "U+0430", "U+0431", "U+0432", "U+0433", "U+0434", "U+0435", "U+0436", "U+0437", "U+0438",
      "U+0439", "U+043A", "U+043B", "U+043C", "U+043D", "U+043E", "U+043F", "U+0440", "U+0441",
      "U+0442", "U+0443", "U+0444", "U+0445", "U+0446", "U+0447", "U+0448", "U+0449", "U+044A",
      "U+044B", "U+044C", "U+044D", "U+044E", "U+044F", "U+0461", "U+0463", "U+0465", "U+0467",
      "U+0469", "U+046B", "U+046D", "U+046F", "U+0471", "U+0473", "U+0475", "U+0477", "U+0479",
      "U+047B", "U+047D", "U+047F", "ҁ", "ҋ", "ҍ", "ҏ", "ґ", "ғ", "ҕ", "җ", "ҙ", "қ", "ҝ", "ҟ",
      "ҡ", "ң", "ҥ", "ҧ", "ҩ", "ҫ", "ҭ", "ү", "ұ", "ҳ", "ҵ", "ҷ", "ҹ", "һ", "ҽ", "ҿ", "ӏ", "ӂ",
      "ӄ", "ӆ", "ӈ", "ӊ", "ӌ", "ӎ", "ӑ", "ӓ", "ӕ", "ӗ", "ә", "ӛ", "ӝ", "ӟ", "ӡ", "ӣ", "ӥ", "ӧ",
      "ө", "ӫ", "ӭ", "ӯ", "ӱ", "ӳ", "ӵ", "ӷ", "ӹ", "ӻ", "ӽ", "ӿ", "U+0501", "U+0503", "U+0505",
      "U+0507", "U+0509", "U+050B", "U+050D", "U+050F", "U+0511", "U+0513", "U+0515", "U+0517",
      "U+0519", "U+051B", "U+051D", "U+051F", "U+0521", "U+0523", "U+0525", "U+0527", "U+0529",
      "U+052B", "U+052D", "U+052F", "U+0561", "U+0562", "U+0563", "U+0564", "U+0565", "U+0566",
      "U+0567", "U+0568", "U+0569", "U+056A", "U+056B", "U+056C", "U+056D", "U+056E", "U+056F",
      "U+0570", "U+0571", "U+0572", "U+0573", "U+0574", "U+0575", "U+0576", "U+0577", "U+0578",
      "U+0579", "U+057A", "U+057B", "U+057C", "U+057D", "U+057E", "U+057F", "ր", "ց", "ւ", "փ",
      "ք", "օ", "ֆ", "U+2D00", "U+2D01", "U+2D02", "U+2D03", "U+2D04", "U+2D05", "U+2D06",
      "U+2D07", "U+2D08", "U+2D09", "U+2D0A", "U+2D0B", "U+2D0C", "U+2D0D", "U+2D0E", "U+2D0F",
      "U+2D10", "U+2D11", "U+2D12", "U+2D13", "U+2D14", "U+2D15", "U+2D16", "U+2D17", "U+2D18",
      "U+2D19", "U+2D1A", "U+2D1B", "U+2D1C", "U+2D1D", "U+2D1E", "U+2D1F", "U+2D20", "U+2D21",
      "U+2D22", "U+2D23", "U+2D24", "U+2D25", "U+2D27", "U+2D2D", "U+AB70", "U+AB71", "U+AB72",
      "U+AB73", "U+AB74", "U+AB75", "U+AB76", "U+AB77", "U+AB78", "U+AB79", "U+AB7A", "U+AB7B",
      "U+AB7C", "U+AB7D", "U+AB7E", "U+AB7F", "ꮀ", "ꮁ", "ꮂ", "ꮃ", "ꮄ", "ꮅ", "ꮆ", "ꮇ", "ꮈ", "ꮉ",
      "ꮊ", "ꮋ", "ꮌ", "ꮍ", "ꮎ", "ꮏ", "ꮐ", "ꮑ", "ꮒ", "ꮓ", "ꮔ", "ꮕ", "ꮖ", "ꮗ", "ꮘ", "ꮙ", "ꮚ", "ꮛ",
      "ꮜ", "ꮝ", "ꮞ", "ꮟ", "ꮠ", "ꮡ", "ꮢ", "ꮣ", "ꮤ", "ꮥ", "ꮦ", "ꮧ", "ꮨ", "ꮩ", "ꮪ", "ꮫ", "ꮬ", "ꮭ",
      "ꮮ", "ꮯ", "ꮰ", "ꮱ", "ꮲ", "ꮳ", "ꮴ", "ꮵ", "ꮶ", "ꮷ", "ꮸ", "ꮹ", "ꮺ", "ꮻ", "ꮼ", "ꮽ", "ꮾ", "ꮿ",
      "ᏸ", "ᏹ", "ᏺ", "ᏻ", "ᏼ", "ᏽ", "ᲊ", "ა", "ბ", "გ", "დ", "ე", "ვ", "ზ", "თ", "ი", "კ", "ლ",
      "მ", "ნ", "ო", "პ", "ჟ", "რ", "ს", "ტ", "უ", "ფ", "ქ", "ღ", "ყ", "შ", "ჩ", "ც", "ძ", "წ",
      "ჭ", "ხ", "ჯ", "ჰ", "ჱ", "ჲ", "ჳ", "ჴ", "ჵ", "ჶ", "ჷ", "ჸ", "ჹ", "ჺ", "ჽ", "ჾ", "ჿ",
      "U+1E01", "U+1E03", "U+1E05", "U+1E07", "U+1E09", "U+1E0B", "U+1E0D", "U+1E0F", "U+1E11",
      "U+1E13", "U+1E15", "U+1E17", "U+1E19", "U+1E1B", "U+1E1D", "U+1E1F", "U+1E21", "U+1E23",
      "U+1E25", "U+1E27", "U+1E29", "U+1E2B", "U+1E2D", "U+1E2F", "U+1E31", "U+1E33", "U+1E35",
      "U+1E37", "U+1E39", "U+1E3B", "U+1E3D", "U+1E3F", "U+1E41", "U+1E43", "U+1E45", "U+1E47",
      "U+1E49", "U+1E4B", "U+1E4D", "U+1E4F", "U+1E51", "U+1E53", "U+1E55", "U+1E57", "U+1E59",
      "U+1E5B", "U+1E5D", "U+1E5F", "U+1E61", "U+1E63", "U+1E65", "U+1E67", "U+1E69", "U+1E6B",
      "U+1E6D", "U+1E6F", "U+1E71", "U+1E73", "U+1E75", "U+1E77", "U+1E79", "U+1E7B", "U+1E7D",
      "U+1E7F", "ẁ", "ẃ", "ẅ", "ẇ", "ẉ", "ẋ", "ẍ", "ẏ", "ẑ", "ẓ", "ẕ", "ß", "ạ", "ả", "ấ", "ầ",
      "ẩ", "ẫ", "ậ", "ắ", "ằ", "ẳ", "ẵ", "ặ", "ẹ", "ẻ", "ẽ", "ế", "ề", "ể", "ễ", "ệ", "ỉ", "ị",
      "ọ", "ỏ", "ố", "ồ", "ổ", "ỗ", "ộ", "ớ", "ờ", "ở", "ỡ", "ợ", "ụ", "ủ", "ứ", "ừ", "ử", "ữ",
      "ự", "ỳ", "ỵ", "ỷ", "ỹ", "ỻ", "ỽ", "ỿ", "U+1F00", "U+1F01", "U+1F02", "U+1F03", "U+1F04",
      "U+1F05", "U+1F06", "U+1F07", "U+1F10", "U+1F11", "U+1F12", "U+1F13", "U+1F14", "U+1F15",
      "U+1F20", "U+1F21", "U+1F22", "U+1F23", "U+1F24", "U+1F25", "U+1F26", "U+1F27", "U+1F30",
      "U+1F31", "U+1F32", "U+1F33", "U+1F34", "U+1F35", "U+1F36", "U+1F37", "U+1F40", "U+1F41",
      "U+1F42", "U+1F43", "U+1F44", "U+1F45", "U+1F51", "U+1F53", "U+1F55", "U+1F57", "U+1F60",
      "U+1F61", "U+1F62", "U+1F63", "U+1F64", "U+1F65", "U+1F66", "U+1F67", "ᾀ", "ᾁ", "ᾂ", "ᾃ",
      "ᾄ", "ᾅ", "ᾆ", "ᾇ", "ᾐ", "ᾑ", "ᾒ", "ᾓ", "ᾔ", "ᾕ", "ᾖ", "ᾗ", "ᾠ", "ᾡ", "ᾢ", "ᾣ", "ᾤ", "ᾥ",
      "ᾦ", "ᾧ", "ᾰ", "ᾱ", "U+1F70", "U+1F71", "ᾳ", "U+1F72", "U+1F73", "U+1F74", "U+1F75", "ῃ",
      "ῐ", "ῑ", "U+1F76", "U+1F77", "ῠ", "ῡ", "U+1F7A", "U+1F7B", "ῥ", "U+1F78", "U+1F79",
      "U+1F7C", "U+1F7D", "ῳ", "ω", "k", "å", "U+214E", "U+2170", "U+2171", "U+2172", "U+2173",
      "U+2174", "U+2175", "U+2176", "U+2177", "U+2178", "U+2179", "U+217A", "U+217B", "U+217C",
      "U+217D", "U+217E", "U+217F", "ↄ", "ⓐ", "ⓑ", "ⓒ", "ⓓ", "ⓔ", "ⓕ", "ⓖ", "ⓗ", "ⓘ", "ⓙ", "ⓚ",
      "ⓛ", "ⓜ", "ⓝ", "ⓞ", "ⓟ", "ⓠ", "ⓡ", "ⓢ", "ⓣ", "ⓤ", "ⓥ", "ⓦ", "ⓧ", "ⓨ", "ⓩ", "U+2C30",
      "U+2C31", "U+2C32", "U+2C33", "U+2C34", "U+2C35", "U+2C36", "U+2C37", "U+2C38", "U+2C39",
      "U+2C3A", "U+2C3B", "U+2C3C", "U+2C3D", "U+2C3E", "U+2C3F", "U+2C40", "U+2C41", "U+2C42",
      "U+2C43", "U+2C44", "U+2C45", "U+2C46", "U+2C47", "U+2C48", "U+2C49", "U+2C4A", "U+2C4B",
      "U+2C4C", "U+2C4D", "U+2C4E", "U+2C4F", "U+2C50", "U+2C51", "U+2C52", "U+2C53", "U+2C54",
      "U+2C55", "U+2C56", "U+2C57", "U+2C58", "U+2C59", "U+2C5A", "U+2C5B", "U+2C5C", "U+2C5D",
      "U+2C5E", "U+2C5F", "U+2C61", "U+026B", "U+1D7D", "U+027D", "U+2C68", "U+2C6A", "U+2C6C",
      "U+0251", "U+0271", "U+0250", "U+0252", "U+2C73", "U+2C76", "U+023F", "U+0240", "ⲁ", "ⲃ",
      "ⲅ", "ⲇ", "ⲉ", "ⲋ", "ⲍ", "ⲏ", "ⲑ", "ⲓ", "ⲕ", "ⲗ", "ⲙ", "ⲛ", "ⲝ", "ⲟ", "ⲡ", "ⲣ", "ⲥ", "ⲧ",
      "ⲩ", "ⲫ", "ⲭ", "ⲯ", "ⲱ", "ⲳ", "ⲵ", "ⲷ", "ⲹ", "ⲻ", "ⲽ", "ⲿ", "ⳁ", "ⳃ", "ⳅ", "ⳇ", "ⳉ", "ⳋ",
      "ⳍ", "ⳏ", "ⳑ", "ⳓ", "ⳕ", "ⳗ", "ⳙ", "ⳛ", "ⳝ", "ⳟ", "ⳡ", "ⳣ", "ⳬ", "ⳮ", "ⳳ", "U+A641",
      "U+A643", "U+A645", "U+A647", "U+A649", "U+A64B", "U+A64D", "U+A64F", "U+A651", "U+A653",
      "U+A655", "U+A657", "U+A659", "U+A65B", "U+A65D", "U+A65F", "U+A661", "U+A663", "U+A665",
      "U+A667", "U+A669", "U+A66B", "U+A66D", "ꚁ", "ꚃ", "ꚅ", "ꚇ", "ꚉ", "ꚋ", "ꚍ", "ꚏ", "ꚑ", "ꚓ",
      "ꚕ", "ꚗ", "ꚙ", "ꚛ", "U+A723", "U+A725", "U+A727", "U+A729", "U+A72B", "U+A72D", "U+A72F",
      "U+A733", "U+A735", "U+A737", "U+A739", "U+A73B", "U+A73D", "U+A73F", "U+A741", "U+A743",
      "U+A745", "U+A747", "U+A749", "U+A74B", "U+A74D", "U+A74F", "U+A751", "U+A753", "U+A755",
      "U+A757", "U+A759", "U+A75B", "U+A75D", "U+A75F", "U+A761", "U+A763", "U+A765", "U+A767",
      "U+A769", "U+A76B", "U+A76D", "U+A76F", "U+A77A", "U+A77C", "U+1D79", "U+A77F", "ꞁ", "ꞃ",
      "ꞅ", "ꞇ", "ꞌ", "U+0265", "ꞑ", "ꞓ", "ꞗ", "ꞙ", "ꞛ", "ꞝ", "ꞟ", "ꞡ", "ꞣ", "ꞥ", "ꞧ", "ꞩ",
      "U+0266", "U+025C", "U+0261", "U+026C", "U+026A", "ʞ", "ʇ", "ʝ", "U+AB53", "ꞵ", "ꞷ", "ꞹ",
      "ꞻ", "ꞽ", "ꞿ", "ꟁ", "ꟃ", "ꞔ", "ʂ", "ᶎ", "ꟈ", "ꟊ", "U+0264", "ꟍ", "꟏", "ꟑ", "ꟓ", "ꟕ", "ꟗ",
      "ꟙ", "ꟛ", "ƛ", "ꟶ", "U+FF41", "U+FF42", "U+FF43", "U+FF44", "U+FF45", "U+FF46", "U+FF47",
      "U+FF48", "U+FF49", "U+FF4A", "U+FF4B", "U+FF4C", "U+FF4D", "U+FF4E", "U+FF4F", "U+FF50",
      "U+FF51", "U+FF52", "U+FF53", "U+FF54", "U+FF55", "U+FF56", "U+FF57", "U+FF58", "U+FF59",
      "U+FF5A", "U+10428", "U+10429", "U+1042A", "U+1042B", "U+1042C", "U+1042D", "U+1042E",
      "U+1042F", "U+10430", "U+10431", "U+10432", "U+10433", "U+10434", "U+10435", "U+10436",
      "U+10437", "U+10438", "U+10439", "U+1043A", "U+1043B", "U+1043C", "U+1043D", "U+1043E",
      "U+1043F", "U+10440", "U+10441", "U+10442", "U+10443", "U+10444", "U+10445", "U+10446",
      "U+10447", "U+10448", "U+10449", "U+1044A", "U+1044B", "U+1044C", "U+1044D", "U+1044E",
      "U+1044F", "U+104D8", "U+104D9", "U+104DA", "U+104DB", "U+104DC", "U+104DD", "U+104DE",
      "U+104DF", "U+104E0", "U+104E1", "U+104E2", "U+104E3", "U+104E4", "U+104E5", "U+104E6",
      "U+104E7", "U+104E8", "U+104E9", "U+104EA", "U+104EB", "U+104EC", "U+104ED", "U+104EE",
      "U+104EF", "U+104F0", "U+104F1", "U+104F2", "U+104F3", "U+104F4", "U+104F5", "U+104F6",
      "U+104F7", "U+104F8", "U+104F9", "U+104FA", "U+104FB", "U+10597", "U+10598", "U+10599",
      "U+1059A", "U+1059B", "U+1059C", "U+1059D", "U+1059E", "U+1059F", "U+105A0", "U+105A1",
      "U+105A3", "U+105A4", "U+105A5", "U+105A6", "U+105A7", "U+105A8", "U+105A9", "U+105AA",
      "U+105AB", "U+105AC", "U+105AD", "U+105AE", "U+105AF", "U+105B0", "U+105B1", "U+105B3",
      "U+105B4", "U+105B5", "U+105B6", "U+105B7", "U+105B8", "U+105B9", "U+105BB", "U+105BC",
      "U+10CC0", "U+10CC1", "U+10CC2", "U+10CC3", "U+10CC4", "U+10CC5", "U+10CC6", "U+10CC7",
      "U+10CC8", "U+10CC9", "U+10CCA", "U+10CCB", "U+10CCC", "U+10CCD", "U+10CCE", "U+10CCF",
      "U+10CD0", "U+10CD1", "U+10CD2", "U+10CD3", "U+10CD4", "U+10CD5", "U+10CD6", "U+10CD7",
      "U+10CD8", "U+10CD9", "U+10CDA", "U+10CDB", "U+10CDC", "U+10CDD", "U+10CDE", "U+10CDF",
      "U+10CE0", "U+10CE1", "U+10CE2", "U+10CE3", "U+10CE4", "U+10CE5", "U+10CE6", "U+10CE7",
      "U+10CE8", "U+10CE9", "U+10CEA", "U+10CEB", "U+10CEC", "U+10CED", "U+10CEE", "U+10CEF",
      "U+10CF0", "U+10CF1", "U+10CF2", "U+10D70", "U+10D71", "U+10D72", "U+10D73", "U+10D74",
      "U+10D75", "U+10D76", "U+10D77", "U+10D78", "U+10D79", "U+10D7A", "U+10D7B", "U+10D7C",
      "U+10D7D", "U+10D7E", "U+10D7F", "U+10D80", "U+10D81", "U+10D82", "U+10D83", "U+10D84",
      "U+10D85", "U+118C0", "U+118C1", "U+118C2", "U+118C3", "U+118C4", "U+118C5", "U+118C6",
      "U+118C7", "U+118C8", "U+118C9", "U+118CA", "U+118CB", "U+118CC", "U+118CD", "U+118CE",
      "U+118CF", "U+118D0", "U+118D1", "U+118D2", "U+118D3", "U+118D4", "U+118D5", "U+118D6",
      "U+118D7", "U+118D8", "U+118D9", "U+118DA", "U+118DB", "U+118DC", "U+118DD", "U+118DE",
      "U+118DF", "U+16E60", "U+16E61", "U+16E62", "U+16E63", "U+16E64", "U+16E65", "U+16E66",
      "U+16E67", "U+16E68", "U+16E69", "U+16E6A", "U+16E6B", "U+16E6C", "U+16E6D", "U+16E6E",
      "U+16E6F", "U+16E70", "U+16E71", "U+16E72", "U+16E73", "U+16E74", "U+16E75", "U+16E76",
      "U+16E77", "U+16E78", "U+16E79", "U+16E7A", "U+16E7B", "U+16E7C", "U+16E7D", "U+16E7E",
      "U+16E7F", "U+16EBB", "U+16EBC", "U+16EBD", "U+16EBE", "U+16EBF", "U+16EC0", "U+16EC1",
      "U+16EC2", "U+16EC3", "U+16EC4", "U+16EC5", "U+16EC6", "U+16EC7", "U+16EC8", "U+16EC9",
      "U+16ECA", "U+16ECB", "U+16ECC", "U+16ECD", "U+16ECE", "U+16ECF", "U+16ED0", "U+16ED1",
      "U+16ED2", "U+16ED3", "U+1E922", "U+1E923", "U+1E924", "U+1E925", "U+1E926", "U+1E927",
      "U+1E928", "U+1E929", "U+1E92A", "U+1E92B", "U+1E92C", "U+1E92D", "U+1E92E", "U+1E92F",
      "U+1E930", "U+1E931", "U+1E932", "U+1E933", "U+1E934", "U+1E935", "U+1E936", "U+1E937",
      "U+1E938", "U+1E939", "U+1E93A", "U+1E93B", "U+1E93C", "U+1E93D", "U+1E93E", "U+1E93F",
      "U+1E940", "U+1E941", "U+1E942", "U+1E943">>

\* The letters that have a case and, below, the marks and signs that are
\* ignored when the letters next to a capital sigma are looked for (a letter
\* that is both is among the latter only)
Cased ==
    {"A", "B", "C", "D", "E", "F", "G", "H", "I", "J", "K", "L", "M", "N", "O", "P", "Q", "R",
     "S", "T", "U", "V", "W", "X", "Y", "Z", "a", "b", "c", "d", "e", "f", "g", "h", "i", "j",
     "k", "l", "m", "n", "o", "p", "q", "r", "s", "t", "u", "v", "w", "x", "y", "z", "ª", "µ",
     "º", "À", "Á", "Â", "Ã", "Ä", "Å", "Æ", "Ç", "È", "É", "Ê", "Ë", "Ì", "Í", "Î", "Ï", "Ð",
     "Ñ", "Ò", "Ó", "Ô", "Õ", "Ö", "Ø", "Ù", "Ú", "Û", "Ü", "Ý", "Þ", "ß", "à", "á", "â", "ã",
     "ä", "å", "æ", "ç", "è", "é", "ê", "ë", "ì", "í", "î", "ï", "ð", "ñ", "ò", "ó", "ô", "õ",
     "ö", "ø", "ù", "ú", "û", "ü", "ý", "þ", "ÿ", "U+0100", "U+0101", "U+0102", "U+0103",
     "U+0104", "U+0105", "U+0106", "U+0107", "U+0108", "U+0109", "U+010A", "U+010B", "U+010C",
     "U+010D", "U+010E", "U+010F", "U+0110", "U+0111", "U+0112", "U+0113", "U+0114", "U+0115",
     "U+0116", "U+0117", "U+0118", "U+0119", "U+011A", "U+011B", "U+011C", "U+011D", "U+011E",
     "U+011F", "U+0120", "U+0121", "U+0122", "U+0123", "U+0124", "U+0125", "U+0126", "U+0127",
     "U+0128", "U+0129", "U+012A", "U+012B", "U+012C", "U+012D", "U+012E", "U+012F", "U+0130",
     "U+0131", "U+0132", "U+0133", "U+0134", "U+0135", "U+0136", "U+0137", "U+0138", "U+0139",
     "U+013A", "U+013B", "U+013C", "U+013D", "U+013E", "U+013F", "U+0140", "U+0141", "U+0142",
     "U+0143", "U+0144", "U+0145", "U+0146", "U+0147", "U+0148", "U+0149", "U+014A", "U+014B",
     "U+014C", "U+014D", "U+014E", "U+014F", "U+0150", "U+0151", "U+0152", "U+0153", "U+0154",
     "U+0155", "U+0156", "U+0157", "U+0158", "U+0159", "U+015A", "U+015B", "U+015C", "U+015D",
     "U+015E", "U+015F", "U+0160", "U+0161", "U+0162", "U+0163", "U+0164", "U+0165", "U+0166",
     "U+0167", "U+0168", "U+0169", "U+016A", "U+016B", "U+016C", "U+016D", "U+016E", "U+016F",
     "U+0170", "U+0171", "U+0172", "U+0173", "U+0174", "U+0175", "U+0176", "U+0177", "U+0178",
     "U+0179", "U+017A", "U+017B", "U+017C", "U+017D", "U+017E", "U+017F", "ƀ", "Ɓ", "Ƃ", "ƃ",
     "Ƅ", "ƅ", "Ɔ", "Ƈ", "ƈ", "Ɖ", "Ɗ", "Ƌ", "ƌ", "ƍ", "Ǝ", "Ə", "Ɛ", "Ƒ", "ƒ", "Ɠ", "Ɣ", "ƕ",
     "Ɩ", "Ɨ", "Ƙ", "ƙ", "ƚ", "ƛ", "Ɯ", "Ɲ", "ƞ", "Ɵ", "Ơ", "ơ", "Ƣ", "ƣ", "Ƥ", "ƥ", "Ʀ", "Ƨ",
     "ƨ", "Ʃ", "ƪ", "ƫ", "Ƭ", "ƭ", "Ʈ", "Ư", "ư", "Ʊ", "Ʋ", "Ƴ", "ƴ", "Ƶ", "ƶ", "Ʒ", "Ƹ", "ƹ",
     "ƺ", "Ƽ", "ƽ", "ƾ", "ƿ", "Ǆ", "ǅ", "ǆ", "Ǉ", "ǈ", "ǉ", "Ǌ", "ǋ", "ǌ", "Ǎ", "ǎ", "Ǐ", "ǐ",
     "Ǒ", "ǒ", "Ǔ", "ǔ", "Ǖ", "ǖ", "Ǘ", "ǘ", "Ǚ", "ǚ", "Ǜ", "ǜ", "ǝ", "Ǟ", "ǟ", "Ǡ", "ǡ", "Ǣ",
     "ǣ", "Ǥ", "ǥ", "Ǧ", "ǧ", "Ǩ", "ǩ", "Ǫ", "ǫ", "Ǭ", "ǭ", "Ǯ", "ǯ", "ǰ", "Ǳ", "ǲ", "ǳ", "Ǵ",
     "ǵ", "Ƕ", "Ƿ", "Ǹ", "ǹ", "Ǻ", "ǻ", "Ǽ", "ǽ", "Ǿ", "ǿ", "U+0200", "U+0201", "U+0202",
     "U+0203", "U+0204", "U+0205", "U+0206", "U+0207", "U+0208", "U+0209", "U+020A", "U+020B",
     "U+020C", "U+020D", "U+020E", "U+020F", "U+0210", "U+0211", "U+0212", "U+0213", "U+0214",
     "U+0215", "U+0216", "U+0217", "U+0218", "U+0219", "U+021A", "U+021B", "U+021C", "U+021D",
     "U+021E", "U+021F", "U+0220", "U+0221", "U+0222", "U+0223", "U+0224", "U+0225", "U+0226",
     "U+0227", "U+0228", "U+0229", "U+022A", "U+022B", "U+022C", "U+022D", "U+022E", "U+022F",
     "U+0230", "U+0231", "U+0232", "U+0233", "U+0234", "U+0235", "U+0236", "U+0237", "U+0238",
     "U+0239", "U+023A", "U+023B", "U+023C", "U+023D", "U+023E", "U+023F", "U+0240", "U+0241",
     "U+0242", "U+0243", "U+0244", "U+0245", "U+0246", "U+0247", "U+0248", "U+0249", "U+024A",
     "U+024B", "U+024C", "U+024D", "U+024E", "U+024F", "U+0250", "U+0251", "U+0252", "U+0253",
     "U+0254", "U+0255", "U+0256", "U+0257", "U+0258", "U+0259", "U+025A", "U+025B", "U+025C",
     "U+025D", "U+025E", "U+025F", "U+0260", "U+0261", "U+0262", "U+0263", "U+0264", "U+0265",
     "U+0266", "U+0267", "U+0268", "U+0269", "U+026A", "U+026B", "U+026C", "U+026D", "U+026E",
     "U+026F", "U+0270", "U+0271", "U+0272", "U+0273", "U+0274", "U+0275", "U+0276", "U+0277",
     "U+0278", "U+0279", "U+027A", "U+027B", "U+027C", "U+027D", "U+027E", "U+027F", "ʀ", "ʁ",
     "ʂ", "ʃ", "ʄ", "ʅ", "ʆ", "ʇ", "ʈ", "ʉ", "ʊ", "ʋ", "ʌ", "ʍ", "ʎ", "ʏ", "ʐ", "ʑ", "ʒ", "ʓ",
     "ʖ", "ʗ", "ʘ", "ʙ", "ʚ", "ʛ", "ʜ", "ʝ", "ʞ", "ʟ", "ʠ", "ʡ", "ʢ", "ʣ", "ʤ", "ʥ", "ʦ", "ʧ",
     "ʨ", "ʩ", "ʪ", "ʫ", "ʬ", "ʭ", "ʮ", "ʯ", "U+0370", "U+0371", "U+0372", "U+0373", "U+0376",
     "U+0377", "U+037B", "U+037C", "U+037D", "U+037F", "Ά", "Έ", "Ή", "Ί", "Ό", "Ύ", "Ώ", "ΐ",
     "Α", "Β", "Γ", "Δ", "Ε", "Ζ", "Η", "Θ", "Ι", "Κ", "Λ", "Μ", "Ν", "Ξ", "Ο", "Π", "Ρ", "Σ",
     "Τ", "Υ", "Φ", "Χ", "Ψ", "Ω", "Ϊ", "Ϋ", "ά", "έ", "ή", "ί", "ΰ", "α", "β", "γ", "δ", "ε",
     "ζ", "η", "θ", "ι", "κ", "λ", "μ", "ν", "ξ", "ο", "π", "ρ", "ς", "σ", "τ", "υ", "φ", "χ",
     "ψ", "ω", "ϊ", "ϋ", "ό", "ύ", "ώ", "Ϗ", "ϐ", "ϑ", "ϒ", "ϓ", "ϔ", "ϕ", "ϖ", "ϗ", "Ϙ", "ϙ",
     "Ϛ", "ϛ", "Ϝ", "ϝ", "Ϟ", "ϟ", "Ϡ", "ϡ", "Ϣ", "ϣ", "Ϥ", "ϥ", "Ϧ", "ϧ", "Ϩ", "ϩ", "Ϫ", "ϫ",
     "Ϭ", "ϭ", "Ϯ", "ϯ", "ϰ", "ϱ", "ϲ", "ϳ", "ϴ", "ϵ", "Ϸ", "ϸ", "Ϲ", "Ϻ", "ϻ", "ϼ", "Ͻ", "Ͼ",
     "Ͽ", "U+0400", "U+0401", "U+0402", "U+0403", "U+0404", "U+0405", "U+0406", "U+0407",
     "U+0408", "U+0409", "U+040A", "U+040B", "U+040C", "U+040D", "U+040E", "U+040F", "U+0410",
     "U+0411", "U+0412", "U+0413", "U+0414", "U+0415", "U+0416", "U+0417", "U+0418", "U+0419",
     "U+041A", "U+041B", "U+041C", "U+041D", "U+041E", "U+041F", "U+0420", "U+0421", "U+0422",
     "U+0423", "U+0424", "U+0425", "U+0426", "U+0427", "U+0428", "U+0429", "U+042A", "U+042B",
     "U+042C", "U+042D", "U+042E", "U+042F", "U+0430", "U+0431", "U+0432", "U+0433", "U+0434",
     "U+0435", "U+0436", "U+0437", "U+0438", "U+0439", "U+043A", "U+043B", "U+043C", "U+043D",
     "U+043E", "U+043F", "U+0440", "U+0441", "U+0442", "U+0443", "U+0444", "U+0445", "U+0446",
     "U+0447", "U+0448", "U+0449", "U+044A", "U+044B", "U+044C", "U+044D", "U+044E", "U+044F",
     "U+0450", "U+0451", "U+0452", "U+0453", "U+0454", "U+0455", "U+0456", "U+0457", "U+0458",
     "U+0459", "U+045A", "U+045B", "U+045C", "U+045D", "U+045E", "U+045F", "U+0460", "U+0461",
     "U+0462", "U+0463", "U+0464", "U+0465", "U+0466", "U+0467", "U+0468", "U+0469", "U+046A",
     "U+046B", "U+046C", "U+046D", "U+046E", "U+046F", "U+0470", "U+0471", "U+0472", "U+0473",
     "U+0474", "U+0475", "U+0476", "U+0477", "U+0478", "U+0479", "U+047A", "U+047B", "U+047C",
     "U+047D", "U+047E", "U+047F", "Ҁ", "ҁ", "Ҋ", "ҋ", "Ҍ", "ҍ", "Ҏ", "ҏ", "Ґ", "ґ", "Ғ", "ғ",
     "Ҕ", "ҕ", "Җ", "җ", "Ҙ", "ҙ", "Қ", "қ", "Ҝ", "ҝ", "Ҟ", "ҟ", "Ҡ", "ҡ", "Ң", "ң", "Ҥ", "ҥ",
     "Ҧ", "ҧ", "Ҩ", "ҩ", "Ҫ", "ҫ", "Ҭ", "ҭ", "Ү", "ү", "Ұ", "ұ", "Ҳ", "ҳ", "Ҵ", "ҵ", "Ҷ", "ҷ",
     "Ҹ", "ҹ", "Һ", "һ", "Ҽ", "ҽ", "Ҿ", "ҿ", "Ӏ", "Ӂ", "ӂ", "Ӄ", "ӄ", "Ӆ", "ӆ", "Ӈ", "ӈ", "Ӊ",
     "ӊ", "Ӌ", "ӌ", "Ӎ", "ӎ", "ӏ", "Ӑ", "ӑ", "Ӓ", "ӓ", "Ӕ", "ӕ", "Ӗ", "ӗ", "Ә", "ә", "Ӛ", "ӛ",
     "Ӝ", "ӝ", "Ӟ", "ӟ", "Ӡ", "ӡ", "Ӣ", "ӣ", "Ӥ", "ӥ", "Ӧ", "ӧ", "Ө", "ө", "Ӫ", "ӫ", "Ӭ", "ӭ",
     "Ӯ", "ӯ", "Ӱ", "ӱ", "Ӳ", "ӳ", "Ӵ", "ӵ", "Ӷ", "ӷ", "Ӹ", "ӹ", "Ӻ", "ӻ", "Ӽ", "ӽ", "Ӿ", "ӿ",
     "U+0500", "U+0501", "U+0502", "U+0503", "U+0504", "U+0505", "U+0506", "U+0507", "U+0508",
     "U+0509", "U+050A", "U+050B", "U+050C", "U+050D", "U+050E", "U+050F", "U+0510", "U+0511",
     "U+0512", "U+0513", "U+0514", "U+0515", "U+0516", "U+0517", "U+0518", "U+0519", "U+051A",
     "U+051B", "U+051C", "U+051D", "U+051E", "U+051F", "U+0520", "U+0521", "U+0522", "U+0523",
     "U+0524", "U+0525", "U+0526", "U+0527", "U+0528", "U+0529", "U+052A", "U+052B", "U+052C",
     "U+052D", "U+052E", "U+052F", "U+0531", "U+0532", "U+0533", "U+0534", "U+0535", "U+0536",
     "U+0537", "U+0538", "U+0539", "U+053A", "U+053B", "U+053C", "U+053D", "U+053E", "U+053F",
     "U+0540", "U+0541", "U+0542", "U+0543", "U+0544", "U+0545", "U+0546", "U+0547", "U+0548",
     "U+0549", "U+054A", "U+054B", "U+054C", "U+054D", "U+054E", "U+054F", "U+0550", "U+0551",
     "U+0552", "U+0553", "U+0554", "U+0555", "U+0556", "U+0560", "U+0561", "U+0562", "U+0563",
     "U+0564", "U+0565", "U+0566", "U+0567", "U+0568", "U+0569", "U+056A", "U+056B", "U+056C",
     "U+056D", "U+056E", "U+056F", "U+0570", "U+0571", "U+0572", "U+0573", "U+0574", "U+0575",
     "U+0576", "U+0577", "U+0578", "U+0579", "U+057A", "U+057B", "U+057C", "U+057D", "U+057E",
     "U+057F", "ր", "ց", "ւ", "փ", "ք", "օ", "ֆ", "և", "ֈ", "Ⴀ", "Ⴁ", "Ⴂ", "Ⴃ", "Ⴄ", "Ⴅ", "Ⴆ",
     "Ⴇ", "Ⴈ", "Ⴉ", "Ⴊ", "Ⴋ", "Ⴌ", "Ⴍ", "Ⴎ", "Ⴏ", "Ⴐ", "Ⴑ", "Ⴒ", "Ⴓ", "Ⴔ", "Ⴕ", "Ⴖ", "Ⴗ", "Ⴘ",
     "Ⴙ", "Ⴚ", "Ⴛ", "Ⴜ", "Ⴝ", "Ⴞ", "Ⴟ", "Ⴠ", "Ⴡ", "Ⴢ", "Ⴣ", "Ⴤ", "Ⴥ", "Ⴧ", "Ⴭ", "ა", "ბ", "გ",
     "დ", "ე", "ვ", "ზ", "თ", "ი", "კ", "ლ", "მ", "ნ", "ო", "პ", "ჟ", "რ", "ს", "ტ", "უ", "ფ",
     "ქ", "ღ", "ყ", "შ", "ჩ", "ც", "ძ", "წ", "ჭ", "ხ", "ჯ", "ჰ", "ჱ", "ჲ", "ჳ", "ჴ", "ჵ", "ჶ",
     "ჷ", "ჸ", "ჹ", "ჺ", "ჽ", "ჾ", "ჿ", "Ꭰ", "Ꭱ", "Ꭲ", "Ꭳ", "Ꭴ", "Ꭵ", "Ꭶ", "Ꭷ", "Ꭸ", "Ꭹ", "Ꭺ",
     "Ꭻ", "Ꭼ", "Ꭽ", "Ꭾ", "Ꭿ", "Ꮀ", "Ꮁ", "Ꮂ", "Ꮃ", "Ꮄ", "Ꮅ", "Ꮆ", "Ꮇ", "Ꮈ", "Ꮉ", "Ꮊ", "Ꮋ", "Ꮌ",
     "Ꮍ", "Ꮎ", "Ꮏ", "Ꮐ", "Ꮑ", "Ꮒ", "Ꮓ", "Ꮔ", "Ꮕ", "Ꮖ", "Ꮗ", "Ꮘ", "Ꮙ", "Ꮚ", "Ꮛ", "Ꮜ", "Ꮝ", "Ꮞ",
     "Ꮟ", "Ꮠ", "Ꮡ", "Ꮢ", "Ꮣ", "Ꮤ", "Ꮥ", "Ꮦ", "Ꮧ", "Ꮨ", "Ꮩ", "Ꮪ", "Ꮫ", "Ꮬ", "Ꮭ", "Ꮮ", "Ꮯ", "Ꮰ",
     "Ꮱ", "Ꮲ", "Ꮳ", "Ꮴ", "Ꮵ", "Ꮶ", "Ꮷ", "Ꮸ", "Ꮹ", "Ꮺ", "Ꮻ", "Ꮼ", "Ꮽ", "Ꮾ", "Ꮿ", "Ᏸ", "Ᏹ", "Ᏺ",
     "Ᏻ", "Ᏼ", "Ᏽ", "ᏸ", "ᏹ", "ᏺ", "ᏻ", "ᏼ", "ᏽ", "ᲀ", "ᲁ", "ᲂ", "ᲃ", "ᲄ", "ᲅ", "ᲆ", "ᲇ", "ᲈ",
     "Ᲊ", "ᲊ", "Ა", "Ბ", "Გ", "Დ", "Ე", "Ვ", "Ზ", "Თ", "Ი", "Კ", "Ლ", "Მ", "Ნ", "Ო", "Პ", "Ჟ",
     "Რ", "Ს", "Ტ", "Უ", "Ფ", "Ქ", "Ღ", "Ყ", "Შ", "Ჩ", "Ც", "Ძ", "Წ", "Ჭ", "Ხ", "Ჯ", "Ჰ", "Ჱ",
     "Ჲ", "Ჳ", "Ჴ", "Ჵ", "Ჶ", "Ჷ", "Ჸ", "Ჹ", "Ჺ", "Ჽ", "Ჾ", "Ჿ", "U+1D00", "U+1D01", "U+1D02",
     "U+1D03", "U+1D04", "U+1D05", "U+1D06", "U+1D07", "U+1D08", "U+1D09", "U+1D0A", "U+1D0B",
     "U+1D0C", "U+1D0D", "U+1D0E", "U+1D0F", "U+1D10", "U+1D11", "U+1D12", "U+1D13", "U+1D14",
     "U+1D15", "U+1D16", "U+1D17", "U+1D18", "U+1D19", "U+1D1A", "U+1D1B", "U+1D1C", "U+1D1D",
     "U+1D1E", "U+1D1F", "U+1D20", "U+1D21", "U+1D22", "U+1D23", "U+1D24", "U+1D25", "U+1D26",
     "U+1D27", "U+1D28", "U+1D29", "U+1D2A", "U+1D2B", "U+1D6B", "U+1D6C", "U+1D6D", "U+1D6E",
     "U+1D6F", "U+1D70", "U+1D71", "U+1D72", "U+1D73", "U+1D74", "U+1D75", "U+1D76", "U+1D77",
     "U+1D79", "U+1D7A", "U+1D7B", "U+1D7C", "U+1D7D", "U+1D7E", "U+1D7F", "ᶀ", "ᶁ", "ᶂ", "ᶃ",
     "ᶄ", "ᶅ", "ᶆ", "ᶇ", "ᶈ", "ᶉ", "ᶊ", "ᶋ", "ᶌ", "ᶍ", "ᶎ", "ᶏ", "ᶐ", "ᶑ", "ᶒ", "ᶓ", "ᶔ", "ᶕ",
     "ᶖ", "ᶗ", "ᶘ", "ᶙ", "ᶚ", "U+1E00", "U+1E01", "U+1E02", "U+1E03", "U+1E04", "U+1E05",
     "U+1E06", "U+1E07", "U+1E08", "U+1E09", "U+1E0A", "U+1E0B", "U+1E0C", "U+1E0D", "U+1E0E",
     "U+1E0F", "U+1E10", "U+1E11", "U+1E12", "U+1E13", "U+1E14", "U+1E15", "U+1E16", "U+1E17",
     "U+1E18", "U+1E19", "U+1E1A", "U+1E1B", "U+1E1C", "U+1E1D", "U+1E1E", "U+1E1F", "U+1E20",
     "U+1E21", "U+1E22", "U+1E23", "U+1E24", "U+1E25", "U+1E26", "U+1E27", "U+1E28", "U+1E29",
     "U+1E2A", "U+1E2B", "U+1E2C", "U+1E2D", "U+1E2E", "U+1E2F", "U+1E30", "U+1E31", "U+1E32",
     "U+1E33", "U+1E34", "U+1E35", "U+1E36", "U+1E37", "U+1E38", "U+1E39", "U+1E3A", "U+1E3B",
     "U+1E3C", "U+1E3D", "U+1E3E", "U+1E3F", "U+1E40", "U+1E41", "U+1E42", "U+1E43", "U+1E44",
     "U+1E45", "U+1E46", "U+1E47", "U+1E48", "U+1E49", "U+1E4A", "U+1E4B", "U+1E4C", "U+1E4D",
     "U+1E4E", "U+1E4F", "U+1E50", "U+1E51", "U+1E52", "U+1E53", "U+1E54", "U+1E55", "U+1E56",
     "U+1E57", "U+1E58", "U+1E59", "U+1E5A", "U+1E5B", "U+1E5C", "U+1E5D", "U+1E5E", "U+1E5F",
     "U+1E60", "U+1E61", "U+1E62", "U+1E63", "U+1E64", "U+1E65", "U+1E66", "U+1E67", "U+1E68",
     "U+1E69", "U+1E6A", "U+1E6B", "U+1E6C", "U+1E6D", "U+1E6E", "U+1E6F", "U+1E70", "U+1E71",
     "U+1E72", "U+1E73", "U+1E74", "U+1E75", "U+1E76", "U+1E77", "U+1E78", "U+1E79", "U+1E7A",
     "U+1E7B", "U+1E7C", "U+1E7D", "U+1E7E", "U+1E7F", "Ẁ", "ẁ", "Ẃ", "ẃ", "Ẅ", "ẅ", "Ẇ", "ẇ",
     "Ẉ", "ẉ", "Ẋ", "ẋ", "Ẍ", "ẍ", "Ẏ", "ẏ", "Ẑ", "ẑ", "Ẓ", "ẓ", "Ẕ", "ẕ", "ẖ", "ẗ", "ẘ", "ẙ",
     "ẚ", "ẛ", "ẜ", "ẝ", "ẞ", "ẟ", "Ạ", "ạ", "Ả", "ả", "Ấ", "ấ", "Ầ", "ầ", "Ẩ", "ẩ", "Ẫ", "ẫ",
     "Ậ", "ậ", "Ắ", "ắ", "Ằ", "ằ", "Ẳ", "ẳ", "Ẵ", "ẵ", "Ặ", "ặ", "Ẹ", "ẹ", "Ẻ", "ẻ", "Ẽ", "ẽ",
     "Ế", "ế", "Ề", "ề", "Ể", "ể", "Ễ", "ễ", "Ệ", "ệ", "Ỉ", "ỉ", "Ị", "ị", "Ọ", "ọ", "Ỏ", "ỏ",
     "Ố", "ố", "Ồ", "ồ", "Ổ", "ổ", "Ỗ", "ỗ", "Ộ", "ộ", "Ớ", "ớ", "Ờ", "ờ", "Ở", "ở", "Ỡ", "ỡ",
     "Ợ", "ợ", "Ụ", "ụ", "Ủ", "ủ", "Ứ", "ứ", "Ừ", "ừ", "Ử", "ử", "Ữ", "ữ", "Ự", "ự", "Ỳ", "ỳ",
     "Ỵ", "ỵ", "Ỷ", "ỷ", "Ỹ", "ỹ", "Ỻ", "ỻ", "Ỽ", "ỽ", "Ỿ", "ỿ", "U+1F00", "U+1F01", "U+1F02",
     "U+1F03", "U+1F04", "U+1F05", "U+1F06", "U+1F07", "U+1F08", "U+1F09", "U+1F0A", "U+1F0B",
     "U+1F0C", "U+1F0D", "U+1F0E", "U+1F0F", "U+1F10", "U+1F11", "U+1F12", "U+1F13", "U+1F14",
     "U+1F15", "U+1F18", "U+1F19", "U+1F1A", "U+1F1B", "U+1F1C", "U+1F1D", "U+1F20", "U+1F21",
     "U+1F22", "U+1F23", "U+1F24", "U+1F25", "U+1F26", "U+1F27", "U+1F28", "U+1F29", "U+1F2A",
     "U+1F2B", "U+1F2C", "U+1F2D", "U+1F2E", "U+1F2F", "U+1F30", "U+1F31", "U+1F32", "U+1F33",
     "U+1F34", "U+1F35", "U+1F36", "U+1F37", "U+1F38", "U+1F39", "U+1F3A", "U+1F3B", "U+1F3C",
     "U+1F3D", "U+1F3E", "U+1F3F", "U+1F40", "U+1F41", "U+1F42", "U+1F43", "U+1F44", "U+1F45",
     "U+1F48", "U+1F49", "U+1F4A", "U+1F4B", "U+1F4C", "U+1F4D", "U+1F50", "U+1F51", "U+1F52",
     "U+1F53", "U+1F54", "U+1F55", "U+1F56", "U+1F57", "U+1F59", "U+1F5B", "U+1F5D", "U+1F5F",
     "U+1F60", "U+1F61", "U+1F62", "U+1F63", "U+1F64", "U+1F65", "U+1F66", "U+1F67", "U+1F68",
     "U+1F69", "U+1F6A", "U+1F6B", "U+1F6C", "U+1F6D", "U+1F6E", "U+1F6F", "U+1F70", "U+1F71",
     "U+1F72", "U+1F73", "U+1F74", "U+1F75", "U+1F76", "U+1F77", "U+1F78", "U+1F79", "U+1F7A",
     "U+1F7B", "U+1F7C", "U+1F7D", "ᾀ", "ᾁ", "ᾂ", "ᾃ", "ᾄ", "ᾅ", "ᾆ", "ᾇ", "ᾈ", "ᾉ", "ᾊ", "ᾋ",
     "ᾌ", "ᾍ", "ᾎ", "ᾏ", "ᾐ", "ᾑ", "ᾒ", "ᾓ", "ᾔ", "ᾕ", "ᾖ", "ᾗ", "ᾘ", "ᾙ", "ᾚ", "ᾛ", "ᾜ", "ᾝ",
     "ᾞ", "ᾟ", "ᾠ", "ᾡ", "ᾢ", "ᾣ", "ᾤ", "ᾥ", "ᾦ", "ᾧ", "ᾨ", "ᾩ", "ᾪ", "ᾫ", "ᾬ", "ᾭ", "ᾮ", "ᾯ",
     "ᾰ", "ᾱ", "ᾲ", "ᾳ", "ᾴ", "ᾶ", "ᾷ", "Ᾰ", "Ᾱ", "Ὰ", "Ά", "ᾼ", "ι", "ῂ", "ῃ", "ῄ", "ῆ", "ῇ",
     "Ὲ", "Έ", "Ὴ", "Ή", "ῌ", "ῐ", "ῑ", "ῒ", "ΐ", "ῖ", "ῗ", "Ῐ", "Ῑ", "Ὶ", "Ί", "ῠ", "ῡ", "ῢ",
     "ΰ", "ῤ", "ῥ", "ῦ", "ῧ", "Ῠ", "Ῡ", "Ὺ", "Ύ", "Ῥ", "ῲ", "ῳ", "ῴ", "ῶ", "ῷ", "Ὸ", "Ό", "Ὼ",
     "Ώ", "ῼ", "U+2102", "U+2107", "U+210A", "U+210B", "U+210C", "U+210D", "U+210E", "U+210F",
     "U+2110", "U+2111", "U+2112", "U+2113", "U+2115", "U+2119", "U+211A", "U+211B", "U+211C",
     "U+211D", "U+2124", "U+2126", "U+2128", "U+212A", "U+212B", "U+212C", "U+212D", "U+212F",
     "U+2130", "U+2131", "U+2132", "U+2133", "U+2134", "U+2139", "U+213C", "U+213D", "U+213E",
     "U+213F", "U+2145", "U+2146", "U+2147", "U+2148", "U+2149", "U+214E", "U+2160", "U+2161",
     "U+2162", "U+2163", "U+2164", "U+2165", "U+2166", "U+2167", "U+2168", "U+2169", "U+216A",
     "U+216B", "U+216C", "U+216D", "U+216E", "U+216F", "U+2170", "U+2171", "U+2172", "U+2173",
     "U+2174", "U+2175", "U+2176", "U+2177", "U+2178", "U+2179", "U+217A", "U+217B", "U+217C",
     "U+217D", "U+217E", "U+217F", "Ↄ", "ↄ", "Ⓐ", "Ⓑ", "Ⓒ", "Ⓓ", "Ⓔ", "Ⓕ", "Ⓖ", "Ⓗ", "Ⓘ", "Ⓙ",
     "Ⓚ", "Ⓛ", "Ⓜ", "Ⓝ", "Ⓞ", "Ⓟ", "Ⓠ", "Ⓡ", "Ⓢ", "Ⓣ", "Ⓤ", "Ⓥ", "Ⓦ", "Ⓧ", "Ⓨ", "Ⓩ", "ⓐ", "ⓑ",
     "ⓒ", "ⓓ", "ⓔ", "ⓕ", "ⓖ", "ⓗ", "ⓘ", "ⓙ", "ⓚ", "ⓛ", "ⓜ", "ⓝ", "ⓞ", "ⓟ", "ⓠ", "ⓡ", "ⓢ", "ⓣ",
     "ⓤ", "ⓥ", "ⓦ", "ⓧ", "ⓨ", "ⓩ", "U+2C00", "U+2C01", "U+2C02", "U+2C03", "U+2C04", "U+2C05",
     "U+2C06", "U+2C07", "U+2C08", "U+2C09", "U+2C0A", "U+2C0B", "U+2C0C", "U+2C0D", "U+2C0E",
     "U+2C0F", "U+2C10", "U+2C11", "U+2C12", "U+2C13", "U+2C14", "U+2C15", "U+2C16", "U+2C17",
     "U+2C18", "U+2C19", "U+2C1A", "U+2C1B", "U+2C1C", "U+2C1D", "U+2C1E", "U+2C1F", "U+2C20",
     "U+2C21", "U+2C22", "U+2C23", "U+2C24", "U+2C25", "U+2C26", "U+2C27", "U+2C28", "U+2C29",
     "U+2C2A", "U+2C2B", "U+2C2C", "U+2C2D", "U+2C2E", "U+2C2F", "U+2C30", "U+2C31", "U+2C32",
     "U+2C33", "U+2C34", "U+2C35", "U+2C36", "U+2C37", "U+2C38", "U+2C39", "U+2C3A", "U+2C3B",
     "U+2C3C", "U+2C3D", "U+2C3E", "U+2C3F", "U+2C40", "U+2C41", "U+2C42", "U+2C43", "U+2C44",
     "U+2C45", "U+2C46", "U+2C47", "U+2C48", "U+2C49", "U+2C4A", "U+2C4B", "U+2C4C", "U+2C4D",
     "U+2C4E", "U+2C4F", "U+2C50", "U+2C51", "U+2C52", "U+2C53", "U+2C54", "U+2C55", "U+2C56",
     "U+2C57", "U+2C58", "U+2C59", "U+2C5A", "U+2C5B", "U+2C5C", "U+2C5D", "U+2C5E", "U+2C5F",
     "U+2C60", "U+2C61", "U+2C62", "U+2C63", "U+2C64", "U+2C65", "U+2C66", "U+2C67", "U+2C68",
     "U+2C69", "U+2C6A", "U+2C6B", "U+2C6C", "U+2C6D", "U+2C6E", "U+2C6F", "U+2C70", "U+2C71",
     "U+2C72", "U+2C73", "U+2C74", "U+2C75", "U+2C76", "U+2C77", "U+2C78", "U+2C79", "U+2C7A",
     "U+2C7B", "U+2C7E", "U+2C7F", "Ⲁ", "ⲁ", "Ⲃ", "ⲃ", "Ⲅ", "ⲅ", "Ⲇ", "ⲇ", "Ⲉ", "ⲉ", "Ⲋ", "ⲋ",
     "Ⲍ", "ⲍ", "Ⲏ", "ⲏ", "Ⲑ", "ⲑ", "Ⲓ", "ⲓ", "Ⲕ", "ⲕ", "Ⲗ", "ⲗ", "Ⲙ", "ⲙ", "Ⲛ", "ⲛ", "Ⲝ", "ⲝ",
     "Ⲟ", "ⲟ", "Ⲡ", "ⲡ", "Ⲣ", "ⲣ", "Ⲥ", "ⲥ", "Ⲧ", "ⲧ", "Ⲩ", "ⲩ", "Ⲫ", "ⲫ", "Ⲭ", "ⲭ", "Ⲯ", "ⲯ",
     "Ⲱ", "ⲱ", "Ⲳ", "ⲳ", "Ⲵ", "ⲵ", "Ⲷ", "ⲷ", "Ⲹ", "ⲹ", "Ⲻ", "ⲻ", "Ⲽ", "ⲽ", "Ⲿ", "ⲿ", "Ⳁ", "ⳁ",
     "Ⳃ", "ⳃ", "Ⳅ", "ⳅ", "Ⳇ", "ⳇ", "Ⳉ", "ⳉ", "Ⳋ", "ⳋ", "Ⳍ", "ⳍ", "Ⳏ", "ⳏ", "Ⳑ", "ⳑ", "Ⳓ", "ⳓ",
     "Ⳕ", "ⳕ", "Ⳗ", "ⳗ", "Ⳙ", "ⳙ", "Ⳛ", "ⳛ", "Ⳝ", "ⳝ", "Ⳟ", "ⳟ", "Ⳡ", "ⳡ", "Ⳣ", "ⳣ", "ⳤ", "Ⳬ",
     "ⳬ", "Ⳮ", "ⳮ", "Ⳳ", "ⳳ", "U+2D00", "U+2D01", "U+2D02", "U+2D03", "U+2D04", "U+2D05",
     "U+2D06", "U+2D07", "U+2D08", "U+2D09", "U+2D0A", "U+2D0B", "U+2D0C", "U+2D0D", "U+2D0E",
     "U+2D0F", "U+2D10", "U+2D11", "U+2D12", "U+2D13", "U+2D14", "U+2D15", "U+2D16", "U+2D17",
     "U+2D18", "U+2D19", "U+2D1A", "U+2D1B", "U+2D1C", "U+2D1D", "U+2D1E", "U+2D1F", "U+2D20",
     "U+2D21", "U+2D22", "U+2D23", "U+2D24", "U+2D25", "U+2D27", "U+2D2D", "U+A640", "U+A641",
     "U+A642", "U+A643", "U+A644", "U+A645", "U+A646", "U+A647", "U+A648", "U+A649", "U+A64A",
     "U+A64B", "U+A64C", "U+A64D", "U+A64E", "U+A64F", "U+A650", "U+A651", "U+A652", "U+A653",
     "U+A654", "U+A655", "U+A656", "U+A657", "U+A658", "U+A659", "U+A65A", "U+A65B", "U+A65C",
     "U+A65D", "U+A65E", "U+A65F", "U+A660", "U+A661", "U+A662", "U+A663", "U+A664", "U+A665",
     "U+A666", "U+A667", "U+A668", "U+A669", "U+A66A", "U+A66B", "U+A66C", "U+A66D", "Ꚁ", "ꚁ",
     "Ꚃ", "ꚃ", "Ꚅ", "ꚅ", "Ꚇ", "ꚇ", "Ꚉ", "ꚉ", "Ꚋ", "ꚋ", "Ꚍ", "ꚍ", "Ꚏ", "ꚏ", "Ꚑ", "ꚑ", "Ꚓ", "ꚓ",
     "Ꚕ", "ꚕ", "Ꚗ", "ꚗ", "Ꚙ", "ꚙ", "Ꚛ", "ꚛ", "U+A722", "U+A723", "U+A724", "U+A725", "U+A726",
     "U+A727", "U+A728", "U+A729", "U+A72A", "U+A72B", "U+A72C", "U+A72D", "U+A72E", "U+A72F",
     "U+A730", "U+A731", "U+A732", "U+A733", "U+A734", "U+A735", "U+A736", "U+A737", "U+A738",
     "U+A739", "U+A73A", "U+A73B", "U+A73C", "U+A73D", "U+A73E", "U+A73F", "U+A740", "U+A741",
     "U+A742", "U+A743", "U+A744", "U+A745", "U+A746", "U+A747", "U+A748", "U+A749", "U+A74A",
     "U+A74B", "U+A74C", "U+A74D", "U+A74E", "U+A74F", "U+A750", "U+A751", "U+A752", "U+A753",
     "U+A754", "U+A755", "U+A756", "U+A757", "U+A758", "U+A759", "U+A75A", "U+A75B", "U+A75C",
     "U+A75D", "U+A75E", "U+A75F", "U+A760", "U+A761", "U+A762", "U+A763", "U+A764", "U+A765",
     "U+A766", "U+A767", "U+A768", "U+A769", "U+A76A", "U+A76B", "U+A76C", "U+A76D", "U+A76E",
     "U+A76F", "U+A771", "U+A772", "U+A773", "U+A774", "U+A775", "U+A776", "U+A777", "U+A778",
     "U+A779", "U+A77A", "U+A77B", "U+A77C", "U+A77D", "U+A77E", "U+A77F", "Ꞁ", "ꞁ", "Ꞃ", "ꞃ",
     "Ꞅ", "ꞅ", "Ꞇ", "ꞇ", "Ꞌ", "ꞌ", "Ɥ", "ꞎ", "Ꞑ", "ꞑ", "Ꞓ", "ꞓ", "ꞔ", "ꞕ", "Ꞗ", "ꞗ", "Ꞙ", "ꞙ",
     "Ꞛ", "ꞛ", "Ꞝ", "ꞝ", "Ꞟ", "ꞟ", "Ꞡ", "ꞡ", "Ꞣ", "ꞣ", "Ꞥ", "ꞥ", "Ꞧ", "ꞧ", "Ꞩ", "ꞩ", "Ɦ", "Ɜ",
     "Ɡ", "Ɬ", "Ɪ", "ꞯ", "Ʞ", "Ʇ", "Ʝ", "Ꭓ", "Ꞵ", "ꞵ", "Ꞷ", "ꞷ", "Ꞹ", "ꞹ", "Ꞻ", "ꞻ", "Ꞽ", "ꞽ",
     "Ꞿ", "ꞿ", "Ꟁ", "ꟁ", "Ꟃ", "ꟃ", "Ꞔ", "Ʂ", "Ᶎ", "Ꟈ", "ꟈ", "Ꟊ", "ꟊ", "Ɤ", "Ꟍ", "ꟍ", "꟎", "꟏",
     "Ꟑ", "ꟑ", "꟒", "ꟓ", "꟔", "ꟕ", "Ꟗ", "ꟗ", "Ꟙ", "ꟙ", "Ꟛ", "ꟛ", "Ƛ", "Ꟶ", "ꟶ", "ꟺ", "U+AB30",
     "U+AB31", "U+AB32", "U+AB33", "U+AB34", "U+AB35", "U+AB36", "U+AB37", "U+AB38", "U+AB39",
     "U+AB3A", "U+AB3B", "U+AB3C", "U+AB3D", "U+AB3E", "U+AB3F", "U+AB40", "U+AB41", "U+AB42",
     "U+AB43", "U+AB44", "U+AB45", "U+AB46", "U+AB47", "U+AB48", "U+AB49", "U+AB4A", "U+AB4B",
     "U+AB4C", "U+AB4D", "U+AB4E", "U+AB4F", "U+AB50", "U+AB51", "U+AB52", "U+AB53", "U+AB54",
     "U+AB55", "U+AB56", "U+AB57", "U+AB58", "U+AB59", "U+AB5A", "U+AB60", "U+AB61", "U+AB62",
     "U+AB63", "U+AB64", "U+AB65", "U+AB66", "U+AB67", "U+AB68", "U+AB70", "U+AB71", "U+AB72",
     "U+AB73", "U+AB74", "U+AB75", "U+AB76", "U+AB77", "U+AB78", "U+AB79", "U+AB7A", "U+AB7B",
     "U+AB7C", "U+AB7D", "U+AB7E", "U+AB7F", "ꮀ", "ꮁ", "ꮂ", "ꮃ", "ꮄ", "ꮅ", "ꮆ", "ꮇ", "ꮈ", "ꮉ",
     "ꮊ", "ꮋ", "ꮌ", "ꮍ", "ꮎ", "ꮏ", "ꮐ", "ꮑ", "ꮒ", "ꮓ", "ꮔ", "ꮕ", "ꮖ", "ꮗ", "ꮘ", "ꮙ", "ꮚ", "ꮛ",
     "ꮜ", "ꮝ", "ꮞ", "ꮟ", "ꮠ", "ꮡ", "ꮢ", "ꮣ", "ꮤ", "ꮥ", "ꮦ", "ꮧ", "ꮨ", "ꮩ", "ꮪ", "ꮫ", "ꮬ", "ꮭ",
     "ꮮ", "ꮯ", "ꮰ", "ꮱ", "ꮲ", "ꮳ", "ꮴ", "ꮵ", "ꮶ", "ꮷ", "ꮸ", "ꮹ", "ꮺ", "ꮻ", "ꮼ", "ꮽ", "ꮾ", "ꮿ",
     "U+FB00", "U+FB01", "U+FB02", "U+FB03", "U+FB04", "U+FB05", "U+FB06", "U+FB13", "U+FB14",
     "U+FB15", "U+FB16", "U+FB17", "U+FF21", "U+FF22", "U+FF23", "U+FF24", "U+FF25", "U+FF26",
     "U+FF27", "U+FF28", "U+FF29", "U+FF2A", "U+FF2B", "U+FF2C", "U+FF2D", "U+FF2E", "U+FF2F",
     "U+FF30", "U+FF31", "U+FF32", "U+FF33", "U+FF34", "U+FF35", "U+FF36", "U+FF37", "U+FF38",
     "U+FF39", "U+FF3A", "U+FF41", "U+FF42", "U+FF43", "U+FF44", "U+FF45", "U+FF46", "U+FF47",
     "U+FF48", "U+FF49", "U+FF4A", "U+FF4B", "U+FF4C", "U+FF4D", "U+FF4E", "U+FF4F", "U+FF50",
     "U+FF51", "U+FF52", "U+FF53", "U+FF54", "U+FF55", "U+FF56", "U+FF57", "U+FF58", "U+FF59",
     "U+FF5A", "U+10400", "U+10401", "U+10402", "U+10403", "U+10404", "U+10405", "U+10406",
     "U+10407", "U+10408", "U+10409", "U+1040A", "U+1040B", "U+1040C", "U+1040D", "U+1040E",
     "U+1040F", "U+10410", "U+10411", "U+10412", "U+10413", "U+10414", "U+10415", "U+10416",
     "U+10417", "U+10418", "U+10419", "U+1041A", "U+1041B", "U+1041C", "U+1041D", "U+1041E",
     "U+1041F", "U+10420", "U+10421", "U+10422", "U+10423", "U+10424", "U+10425", "U+10426",
     "U+10427", "U+10428", "U+10429", "U+1042A", "U+1042B", "U+1042C", "U+1042D", "U+1042E",
     "U+1042F", "U+10430", "U+10431", "U+10432", "U+10433", "U+10434", "U+10435", "U+10436",
     "U+10437", "U+10438", "U+10439", "U+1043A", "U+1043B", "U+1043C", "U+1043D", "U+1043E",
     "U+1043F", "U+10440", "U+10441", "U+10442", "U+10443", "U+10444", "U+10445", "U+10446",
     "U+10447", "U+10448", "U+10449", "U+1044A", "U+1044B", "U+1044C", "U+1044D", "U+1044E",
     "U+1044F", "U+104B0", "U+104B1", "U+104B2", "U+104B3", "U+104B4", "U+104B5", "U+104B6",
     "U+104B7", "U+104B8", "U+104B9", "U+104BA", "U+104BB", "U+104BC", "U+104BD", "U+104BE",
     "U+104BF", "U+104C0", "U+104C1", "U+104C2", "U+104C3", "U+104C4", "U+104C5", "U+104C6",
     "U+104C7", "U+104C8", "U+104C9", "U+104CA", "U+104CB", "U+104CC", "U+104CD", "U+104CE",
     "U+104CF", "U+104D0", "U+104D1", "U+104D2", "U+104D3", "U+104D8", "U+104D9", "U+104DA",
     "U+104DB", "U+104DC", "U+104DD", "U+104DE", "U+104DF", "U+104E0", "U+104E1", "U+104E2",
     "U+104E3", "U+104E4", "U+104E5", "U+104E6", "U+104E7", "U+104E8", "U+104E9", "U+104EA",
     "U+104EB", "U+104EC", "U+104ED", "U+104EE", "U+104EF", "U+104F0", "U+104F1", "U+104F2",
     "U+104F3", "U+104F4", "U+104F5", "U+104F6", "U+104F7", "U+104F8", "U+104F9", "U+104FA",
     "U+104FB", "U+10570", "U+10571", "U+10572", "U+10573", "U+10574", "U+10575", "U+10576",
     "U+10577", "U+10578", "U+10579", "U+1057A", "U+1057C", "U+1057D", "U+1057E", "U+1057F",
     "U+10580", "U+10581", "U+10582", "U+10583", "U+10584", "U+10585", "U+10586", "U+10587",
     "U+10588", "U+10589", "U+1058A", "U+1058C", "U+1058D", "U+1058E", "U+1058F", "U+10590",
     "U+10591", "U+10592", "U+10594", "U+10595", "U+10597", "U+10598", "U+10599", "U+1059A",
     "U+1059B", "U+1059C", "U+1059D", "U+1059E", "U+1059F", "U+105A0", "U+105A1", "U+105A3",
     "U+105A4", "U+105A5", "U+105A6", "U+105A7", "U+105A8", "U+105A9", "U+105AA", "U+105AB",
     "U+105AC", "U+105AD", "U+105AE", "U+105AF", "U+105B0", "U+105B1", "U+105B3", "U+105B4",
     "U+105B5", "U+105B6", "U+105B7", "U+105B8", "U+105B9", "U+105BB", "U+105BC", "U+10C80",
     "U+10C81", "U+10C82", "U+10C83", "U+10C84", "U+10C85", "U+10C86", "U+10C87", "U+10C88",
     "U+10C89", "U+10C8A", "U+10C8B", "U+10C8C", "U+10C8D", "U+10C8E", "U+10C8F", "U+10C90",
     "U+10C91", "U+10C92", "U+10C93", "U+10C94", "U+10C95", "U+10C96", "U+10C97", "U+10C98",
     "U+10C99", "U+10C9A", "U+10C9B", "U+10C9C", "U+10C9D", "U+10C9E", "U+10C9F", "U+10CA0",
     "U+10CA1", "U+10CA2", "U+10CA3", "U+10CA4", "U+10CA5", "U+10CA6", "U+10CA7", "U+10CA8",
     "U+10CA9", "U+10CAA", "U+10CAB", "U+10CAC", "U+10CAD", "U+10CAE", "U+10CAF", "U+10CB0",
     "U+10CB1", "U+10CB2", "U+10CC0", "U+10CC1", "U+10CC2", "U+10CC3", "U+10CC4", "U+10CC5",
     "U+10CC6", "U+10CC7", "U+10CC8", "U+10CC9", "U+10CCA", "U+10CCB", "U+10CCC", "U+10CCD",
     "U+10CCE", "U+10CCF", "U+10CD0", "U+10CD1", "U+10CD2", "U+10CD3", "U+10CD4", "U+10CD5",
     "U+10CD6", "U+10CD7", "U+10CD8", "U+10CD9", "U+10CDA", "U+10CDB", "U+10CDC", "U+10CDD",
     "U+10CDE", "U+10CDF", "U+10CE0", "U+10CE1", "U+10CE2", "U+10CE3", "U+10CE4", "U+10CE5",
     "U+10CE6", "U+10CE7", "U+10CE8", "U+10CE9", "U+10CEA", "U+10CEB", "U+10CEC", "U+10CED",
     "U+10CEE", "U+10CEF", "U+10CF0", "U+10CF1", "U+10CF2", "U+10D50", "U+10D51", "U+10D52",
     "U+10D53", "U+10D54", "U+10D55", "U+10D56", "U+10D57", "U+10D58", "U+10D59", "U+10D5A",
     "U+10D5B", "U+10D5C", "U+10D5D", "U+10D5E", "U+10D5F", "U+10D60", "U+10D61", "U+10D62",
     "U+10D63", "U+10D64", "U+10D65", "U+10D70", "U+10D71", "U+10D72", "U+10D73", "U+10D74",
     "U+10D75", "U+10D76", "U+10D77", "U+10D78", "U+10D79", "U+10D7A", "U+10D7B", "U+10D7C",
     "U+10D7D", "U+10D7E", "U+10D7F", "U+10D80", "U+10D81", "U+10D82", "U+10D83", "U+10D84",
     "U+10D85", "U+118A0", "U+118A1", "U+118A2", "U+118A3", "U+118A4", "U+118A5", "U+118A6",
     "U+118A7", "U+118A8", "U+118A9", "U+118AA", "U+118AB", "U+118AC", "U+118AD", "U+118AE",
     "U+118AF", "U+118B0", "U+118B1", "U+118B2", "U+118B3", "U+118B4", "U+118B5", "U+118B6",
     "U+118B7", "U+118B8", "U+118B9", "U+118BA", "U+118BB", "U+118BC", "U+118BD", "U+118BE",
     "U+118BF", "U+118C0", "U+118C1", "U+118C2", "U+118C3", "U+118C4", "U+118C5", "U+118C6",
     "U+118C7", "U+118C8", "U+118C9", "U+118CA", "U+118CB", "U+118CC", "U+118CD", "U+118CE",
     "U+118CF", "U+118D0", "U+118D1", "U+118D2", "U+118D3", "U+118D4", "U+118D5", "U+118D6",
     "U+118D7", "U+118D8", "U+118D9", "U+118DA", "U+118DB", "U+118DC", "U+118DD", "U+118DE",
     "U+118DF", "U+16E40", "U+16E41", "U+16E42", "U+16E43", "U+16E44", "U+16E45", "U+16E46",
     "U+16E47", "U+16E48", "U+16E49", "U+16E4A", "U+16E4B", "U+16E4C", "U+16E4D", "U+16E4E",
     "U+16E4F", "U+16E50", "U+16E51", "U+16E52", "U+16E53", "U+16E54", "U+16E55", "U+16E56",
     "U+16E57", "U+16E58", "U+16E59", "U+16E5A", "U+16E5B", "U+16E5C", "U+16E5D", "U+16E5E",
     "U+16E5F", "U+16E60", "U+16E61", "U+16E62", "U+16E63", "U+16E64", "U+16E65", "U+16E66",
     "U+16E67", "U+16E68", "U+16E69", "U+16E6A", "U+16E6B", "U+16E6C", "U+16E6D", "U+16E6E",
     "U+16E6F", "U+16E70", "U+16E71", "U+16E72", "U+16E73", "U+16E74", "U+16E75", "U+16E76",
     "U+16E77", "U+16E78", "U+16E79", "U+16E7A", "U+16E7B", "U+16E7C", "U+16E7D", "U+16E7E",
     "U+16E7F", "U+16EA0", "U+16EA1", "U+16EA2", "U+16EA3", "U+16EA4", "U+16EA5", "U+16EA6",
     "U+16EA7", "U+16EA8", "U+16EA9", "U+16EAA", "U+16EAB", "U+16EAC", "U+16EAD", "U+16EAE",
     "U+16EAF", "U+16EB0", "U+16EB1", "U+16EB2", "U+16EB3", "U+16EB4", "U+16EB5", "U+16EB6",
     "U+16EB7", "U+16EB8", "U+16EBB", "U+16EBC", "U+16EBD", "U+16EBE", "U+16EBF", "U+16EC0",
     "U+16EC1", "U+16EC2", "U+16EC3", "U+16EC4", "U+16EC5", "U+16EC6", "U+16EC7", "U+16EC8",
     "U+16EC9", "U+16ECA", "U+16ECB", "U+16ECC", "U+16ECD", "U+16ECE", "U+16ECF", "U+16ED0",
     "U+16ED1", "U+16ED2", "U+16ED3", "U+1D400", "U+1D401", "U+1D402", "U+1D403", "U+1D404",
     "U+1D405", "U+1D406", "U+1D407", "U+1D408", "U+1D409", "U+1D40A", "U+1D40B", "U+1D40C",
     "U+1D40D", "U+1D40E", "U+1D40F", "U+1D410", "U+1D411", "U+1D412", "U+1D413", "U+1D414",
     "U+1D415", "U+1D416", "U+1D417", "U+1D418", "U+1D419", "U+1D41A", "U+1D41B", "U+1D41C",
     "U+1D41D", "U+1D41E", "U+1D41F", "U+1D420", "U+1D421", "U+1D422", "U+1D423", "U+1D424",
     "U+1D425", "U+1D426", "U+1D427", "U+1D428", "U+1D429", "U+1D42A", "U+1D42B", "U+1D42C",
     "U+1D42D", "U+1D42E", "U+1D42F", "U+1D430", "U+1D431", "U+1D432", "U+1D433", "U+1D434",
     "U+1D435", "U+1D436", "U+1D437", "U+1D438", "U+1D439", "U+1D43A", "U+1D43B", "U+1D43C",
     "U+1D43D", "U+1D43E", "U+1D43F", "U+1D440", "U+1D441", "U+1D442", "U+1D443", "U+1D444",
     "U+1D445", "U+1D446", "U+1D447", "U+1D448", "U+1D449", "U+1D44A", "U+1D44B", "U+1D44C",
     "U+1D44D", "U+1D44E", "U+1D44F", "U+1D450", "U+1D451", "U+1D452", "U+1D453", "U+1D454",
     "U+1D456", "U+1D457", "U+1D458", "U+1D459", "U+1D45A", "U+1D45B", "U+1D45C", "U+1D45D",
     "U+1D45E", "U+1D45F", "U+1D460", "U+1D461", "U+1D462", "U+1D463", "U+1D464", "U+1D465",
     "U+1D466", "U+1D467", "U+1D468", "U+1D469", "U+1D46A", "U+1D46B", "U+1D46C", "U+1D46D",
     "U+1D46E", "U+1D46F", "U+1D470", "U+1D471", "U+1D472", "U+1D473", "U+1D474", "U+1D475",
     "U+1D476", "U+1D477", "U+1D478", "U+1D479", "U+1D47A", "U+1D47B", "U+1D47C", "U+1D47D",
     "U+1D47E", "U+1D47F", "U+1D480", "U+1D481", "U+1D482", "U+1D483", "U+1D484", "U+1D485",
     "U+1D486", "U+1D487", "U+1D488", "U+1D489", "U+1D48A", "U+1D48B", "U+1D48C", "U+1D48D",
     "U+1D48E", "U+1D48F", "U+1D490", "U+1D491", "U+1D492", "U+1D493", "U+1D494", "U+1D495",
     "U+1D496", "U+1D497", "U+1D498", "U+1D499", "U+1D49A", "U+1D49B", "U+1D49C", "U+1D49E",
     "U+1D49F", "U+1D4A2", "U+1D4A5", "U+1D4A6", "U+1D4A9", "U+1D4AA", "U+1D4AB", "U+1D4AC",
     "U+1D4AE", "U+1D4AF", "U+1D4B0", "U+1D4B1", "U+1D4B2", "U+1D4B3", "U+1D4B4", "U+1D4B5",
     "U+1D4B6", "U+1D4B7", "U+1D4B8", "U+1D4B9", "U+1D4BB", "U+1D4BD", "U+1D4BE", "U+1D4BF",
     "U+1D4C0", "U+1D4C1", "U+1D4C2", "U+1D4C3", "U+1D4C5", "U+1D4C6", "U+1D4C7", "U+1D4C8",
     "U+1D4C9", "U+1D4CA", "U+1D4CB", "U+1D4CC", "U+1D4CD", "U+1D4CE", "U+1D4CF", "U+1D4D0",
     "U+1D4D1", "U+1D4D2", "U+1D4D3", "U+1D4D4", "U+1D4D5", "U+1D4D6", "U+1D4D7", "U+1D4D8",
     "U+1D4D9", "U+1D4DA", "U+1D4DB", "U+1D4DC", "U+1D4DD", "U+1D4DE", "U+1D4DF", "U+1D4E0",
     "U+1D4E1", "U+1D4E2", "U+1D4E3", "U+1D4E4", "U+1D4E5", "U+1D4E6", "U+1D4E7", "U+1D4E8",
     "U+1D4E9", "U+1D4EA", "U+1D4EB", "U+1D4EC", "U+1D4ED", "U+1D4EE", "U+1D4EF", "U+1D4F0",
     "U+1D4F1", "U+1D4F2", "U+1D4F3", "U+1D4F4", "U+1D4F5", "U+1D4F6", "U+1D4F7", "U+1D4F8",
     "U+1D4F9", "U+1D4FA", "U+1D4FB", "U+1D4FC", "U+1D4FD", "U+1D4FE", "U+1D4FF", "U+1D500",
     "U+1D501", "U+1D502", "U+1D503", "U+1D504", "U+1D505", "U+1D507", "U+1D508", "U+1D509",
     "U+1D50A", "U+1D50D", "U+1D50E", "U+1D50F", "U+1D510", "U+1D511", "U+1D512", "U+1D513",
     "U+1D514", "U+1D516", "U+1D517", "U+1D518", "U+1D519", "U+1D51A", "U+1D51B", "U+1D51C",
     "U+1D51E", "U+1D51F", "U+1D520", "U+1D521", "U+1D522", "U+1D523", "U+1D524", "U+1D525",
     "U+1D526", "U+1D527", "U+1D528", "U+1D529", "U+1D52A", "U+1D52B", "U+1D52C", "U+1D52D",
     "U+1D52E", "U+1D52F", "U+1D530", "U+1D531", "U+1D532", "U+1D533", "U+1D534", "U+1D535",
     "U+1D536", "U+1D537", "U+1D538", "U+1D539", "U+1D53B", "U+1D53C", "U+1D53D", "U+1D53E",
     "U+1D540", "U+1D541", "U+1D542", "U+1D543", "U+1D544", "U+1D546", "U+1D54A", "U+1D54B",
     "U+1D54C", "U+1D54D", "U+1D54E", "U+1D54F", "U+1D550", "U+1D552", "U+1D553", "U+1D554",
     "U+1D555", "U+1D556", "U+1D557", "U+1D558", "U+1D559", "U+1D55A", "U+1D55B", "U+1D55C",
     "U+1D55D", "U+1D55E", "U+1D55F", "U+1D560", "U+1D561", "U+1D562", "U+1D563", "U+1D564",
     "U+1D565", "U+1D566", "U+1D567", "U+1D568", "U+1D569", "U+1D56A", "U+1D56B", "U+1D56C",
     "U+1D56D", "U+1D56E", "U+1D56F", "U+1D570", "U+1D571", "U+1D572", "U+1D573", "U+1D574",
     "U+1D575", "U+1D576", "U+1D577", "U+1D578", "U+1D579", "U+1D57A", "U+1D57B", "U+1D57C",
     "U+1D57D", "U+1D57E", "U+1D57F", "U+1D580", "U+1D581", "U+1D582", "U+1D583", "U+1D584",
     "U+1D585", "U+1D586", "U+1D587", "U+1D588", "U+1D589", "U+1D58A", "U+1D58B", "U+1D58C",
     "U+1D58D", "U+1D58E", "U+1D58F", "U+1D590", "U+1D591", "U+1D592", "U+1D593", "U+1D594",
     "U+1D595", "U+1D596", "U+1D597", "U+1D598", "U+1D599", "U+1D59A", "U+1D59B", "U+1D59C",
     "U+1D59D", "U+1D59E", "U+1D59F", "U+1D5A0", "U+1D5A1", "U+1D5A2", "U+1D5A3", "U+1D5A4",
     "U+1D5A5", "U+1D5A6", "U+1D5A7", "U+1D5A8", "U+1D5A9", "U+1D5AA", "U+1D5AB", "U+1D5AC",
     "U+1D5AD", "U+1D5AE", "U+1D5AF", "U+1D5B0", "U+1D5B1", "U+1D5B2", "U+1D5B3", "U+1D5B4",
     "U+1D5B5", "U+1D5B6", "U+1D5B7", "U+1D5B8", "U+1D5B9", "U+1D5BA", "U+1D5BB", "U+1D5BC",
     "U+1D5BD", "U+1D5BE", "U+1D5BF", "U+1D5C0", "U+1D5C1", "U+1D5C2", "U+1D5C3", "U+1D5C4",
     "U+1D5C5", "U+1D5C6", "U+1D5C7", "U+1D5C8", "U+1D5C9", "U+1D5CA", "U+1D5CB", "U+1D5CC",
     "U+1D5CD", "U+1D5CE", "U+1D5CF", "U+1D5D0", "U+1D5D1", "U+1D5D2", "U+1D5D3", "U+1D5D4",
     "U+1D5D5", "U+1D5D6", "U+1D5D7", "U+1D5D8", "U+1D5D9", "U+1D5DA", "U+1D5DB", "U+1D5DC",
     "U+1D5DD", "U+1D5DE", "U+1D5DF", "U+1D5E0", "U+1D5E1", "U+1D5E2", "U+1D5E3", "U+1D5E4",
     "U+1D5E5", "U+1D5E6", "U+1D5E7", "U+1D5E8", "U+1D5E9", "U+1D5EA", "U+1D5EB", "U+1D5EC",
     "U+1D5ED", "U+1D5EE", "U+1D5EF", "U+1D5F0", "U+1D5F1", "U+1D5F2", "U+1D5F3", "U+1D5F4",
     "U+1D5F5", "U+1D5F6", "U+1D5F7", "U+1D5F8", "U+1D5F9", "U+1D5FA", "U+1D5FB", "U+1D5FC",
     "U+1D5FD", "U+1D5FE", "U+1D5FF", "U+1D600", "U+1D601", "U+1D602", "U+1D603", "U+1D604",
     "U+1D605", "U+1D606", "U+1D607", "U+1D608", "U+1D609", "U+1D60A", "U+1D60B", "U+1D60C",
     "U+1D60D", "U+1D60E", "U+1D60F", "U+1D610", "U+1D611", "U+1D612", "U+1D613", "U+1D614",
     "U+1D615", "U+1D616", "U+1D617", "U+1D618", "U+1D619", "U+1D61A", "U+1D61B", "U+1D61C",
     "U+1D61D", "U+1D61E", "U+1D61F", "U+1D620", "U+1D621", "U+1D622", "U+1D623", "U+1D624",
     "U+1D625", "U+1D626", "U+1D627", "U+1D628", "U+1D629", "U+1D62A", "U+1D62B", "U+1D62C",
     "U+1D62D", "U+1D62E", "U+1D62F", "U+1D630", "U+1D631", "U+1D632", "U+1D633", "U+1D634",
     "U+1D635", "U+1D636", "U+1D637", "U+1D638", "U+1D639", "U+1D63A", "U+1D63B", "U+1D63C",
     "U+1D63D", "U+1D63E", "U+1D63F", "U+1D640", "U+1D641", "U+1D642", "U+1D643", "U+1D644",
     "U+1D645", "U+1D646", "U+1D647", "U+1D648", "U+1D649", "U+1D64A", "U+1D64B", "U+1D64C",
     "U+1D64D", "U+1D64E", "U+1D64F", "U+1D650", "U+1D651", "U+1D652", "U+1D653", "U+1D654",
     "U+1D655", "U+1D656", "U+1D657", "U+1D658", "U+1D659", "U+1D65A", "U+1D65B", "U+1D65C",
     "U+1D65D", "U+1D65E", "U+1D65F", "U+1D660", "U+1D661", "U+1D662", "U+1D663", "U+1D664",
     "U+1D665", "U+1D666", "U+1D667", "U+1D668", "U+1D669", "U+1D66A", "U+1D66B", "U+1D66C",
     "U+1D66D", "U+1D66E", "U+1D66F", "U+1D670", "U+1D671", "U+1D672", "U+1D673", "U+1D674",
     "U+1D675", "U+1D676", "U+1D677", "U+1D678", "U+1D679", "U+1D67A", "U+1D67B", "U+1D67C",
     "U+1D67D", "U+1D67E", "U+1D67F", "U+1D680", "U+1D681", "U+1D682", "U+1D683", "U+1D684",
     "U+1D685", "U+1D686", "U+1D687", "U+1D688", "U+1D689", "U+1D68A", "U+1D68B", "U+1D68C",
     "U+1D68D", "U+1D68E", "U+1D68F", "U+1D690", "U+1D691", "U+1D692", "U+1D693", "U+1D694",
     "U+1D695", "U+1D696", "U+1D697", "U+1D698", "U+1D699", "U+1D69A", "U+1D69B", "U+1D69C",
     "U+1D69D", "U+1D69E", "U+1D69F", "U+1D6A0", "U+1D6A1", "U+1D6A2", "U+1D6A3", "U+1D6A4",
     "U+1D6A5", "U+1D6A8", "U+1D6A9", "U+1D6AA", "U+1D6AB", "U+1D6AC", "U+1D6AD", "U+1D6AE",
     "U+1D6AF", "U+1D6B0", "U+1D6B1", "U+1D6B2", "U+1D6B3", "U+1D6B4", "U+1D6B5", "U+1D6B6",
     "U+1D6B7", "U+1D6B8", "U+1D6B9", "U+1D6BA", "U+1D6BB", "U+1D6BC", "U+1D6BD", "U+1D6BE",
     "U+1D6BF", "U+1D6C0", "U+1D6C2", "U+1D6C3", "U+1D6C4", "U+1D6C5", "U+1D6C6", "U+1D6C7",
     "U+1D6C8", "U+1D6C9", "U+1D6CA", "U+1D6CB", "U+1D6CC", "U+1D6CD", "U+1D6CE", "U+1D6CF",
     "U+1D6D0", "U+1D6D1", "U+1D6D2", "U+1D6D3", "U+1D6D4", "U+1D6D5", "U+1D6D6", "U+1D6D7",
     "U+1D6D8", "U+1D6D9", "U+1D6DA", "U+1D6DC", "U+1D6DD", "U+1D6DE", "U+1D6DF", "U+1D6E0",
     "U+1D6E1", "U+1D6E2", "U+1D6E3", "U+1D6E4", "U+1D6E5", "U+1D6E6", "U+1D6E7", "U+1D6E8",
     "U+1D6E9", "U+1D6EA", "U+1D6EB", "U+1D6EC", "U+1D6ED", "U+1D6EE", "U+1D6EF", "U+1D6F0",
     "U+1D6F1", "U+1D6F2", "U+1D6F3", "U+1D6F4", "U+1D6F5", "U+1D6F6", "U+1D6F7", "U+1D6F8",
     "U+1D6F9", "U+1D6FA", "U+1D6FC", "U+1D6FD", "U+1D6FE", "U+1D6FF", "U+1D700", "U+1D701",
     "U+1D702", "U+1D703", "U+1D704", "U+1D705", "U+1D706", "U+1D707", "U+1D708", "U+1D709",
     "U+1D70A", "U+1D70B", "U+1D70C", "U+1D70D", "U+1D70E", "U+1D70F", "U+1D710", "U+1D711",
     "U+1D712", "U+1D713", "U+1D714", "U+1D716", "U+1D717", "U+1D718", "U+1D719", "U+1D71A",
     "U+1D71B", "U+1D71C", "U+1D71D", "U+1D71E", "U+1D71F", "U+1D720", "U+1D721", "U+1D722",
     "U+1D723", "U+1D724", "U+1D725", "U+1D726", "U+1D727", "U+1D728", "U+1D729", "U+1D72A",
     "U+1D72B", "U+1D72C", "U+1D72D", "U+1D72E", "U+1D72F", "U+1D730", "U+1D731", "U+1D732",
     "U+1D733", "U+1D734", "U+1D736", "U+1D737", "U+1D738", "U+1D739", "U+1D73A", "U+1D73B",
     "U+1D73C", "U+1D73D", "U+1D73E", "U+1D73F", "U+1D740", "U+1D741", "U+1D742", "U+1D743",
     "U+1D744", "U+1D745", "U+1D746", "U+1D747", "U+1D748", "U+1D749", "U+1D74A", "U+1D74B",
     "U+1D74C", "U+1D74D", "U+1D74E", "U+1D750", "U+1D751", "U+1D752", "U+1D753", "U+1D754",
     "U+1D755", "U+1D756", "U+1D757", "U+1D758", "U+1D759", "U+1D75A", "U+1D75B", "U+1D75C",
     "U+1D75D", "U+1D75E", "U+1D75F", "U+1D760", "U+1D761", "U+1D762", "U+1D763", "U+1D764",
     "U+1D765", "U+1D766", "U+1D767", "U+1D768", "U+1D769", "U+1D76A", "U+1D76B", "U+1D76C",
     "U+1D76D", "U+1D76E", "U+1D770", "U+1D771", "U+1D772", "U+1D773", "U+1D774", "U+1D775",
     "U+1D776", "U+1D777", "U+1D778", "U+1D779", "U+1D77A", "U+1D77B", "U+1D77C", "U+1D77D",
     "U+1D77E", "U+1D77F", "U+1D780", "U+1D781", "U+1D782", "U+1D783", "U+1D784", "U+1D785",
     "U+1D786", "U+1D787", "U+1D788", "U+1D78A", "U+1D78B", "U+1D78C", "U+1D78D", "U+1D78E",
     "U+1D78F", "U+1D790", "U+1D791", "U+1D792", "U+1D793", "U+1D794", "U+1D795", "U+1D796",
     "U+1D797", "U+1D798", "U+1D799", "U+1D79A", "U+1D79B", "U+1D79C", "U+1D79D", "U+1D79E",
     "U+1D79F", "U+1D7A0", "U+1D7A1", "U+1D7A2", "U+1D7A3", "U+1D7A4", "U+1D7A5", "U+1D7A6",
     "U+1D7A7", "U+1D7A8", "U+1D7AA", "U+1D7AB", "U+1D7AC", "U+1D7AD", "U+1D7AE", "U+1D7AF",
     "U+1D7B0", "U+1D7B1", "U+1D7B2", "U+1D7B3", "U+1D7B4", "U+1D7B5", "U+1D7B6", "U+1D7B7",
     "U+1D7B8", "U+1D7B9", "U+1D7BA", "U+1D7BB", "U+1D7BC", "U+1D7BD", "U+1D7BE", "U+1D7BF",
     "U+1D7C0", "U+1D7C1", "U+1D7C2", "U+1D7C4", "U+1D7C5", "U+1D7C6", "U+1D7C7", "U+1D7C8",
     "U+1D7C9", "U+1D7CA", "U+1D7CB", "U+1DF00", "U+1DF01", "U+1DF02", "U+1DF03", "U+1DF04",
     "U+1DF05", "U+1DF06", "U+1DF07", "U+1DF08", "U+1DF09", "U+1DF0B", "U+1DF0C", "U+1DF0D",
     "U+1DF0E", "U+1DF0F", "U+1DF10", "U+1DF11", "U+1DF12", "U+1DF13", "U+1DF14", "U+1DF15",
     "U+1DF16", "U+1DF17", "U+1DF18", "U+1DF19", "U+1DF1A", "U+1DF1B", "U+1DF1C", "U+1DF1D",
     "U+1DF1E", "U+1DF25", "U+1DF26", "U+1DF27", "U+1DF28", "U+1DF29", "U+1DF2A", "U+1E900",
     "U+1E901", "U+1E902", "U+1E903", "U+1E904", "U+1E905", "U+1E906", "U+1E907", "U+1E908",
     "U+1E909", "U+1E90A", "U+1E90B", "U+1E90C", "U+1E90D", "U+1E90E", "U+1E90F", "U+1E910",
     "U+1E911", "U+1E912", "U+1E913", "U+1E914", "U+1E915", "U+1E916", "U+1E917", "U+1E918",
     "U+1E919", "U+1E91A", "U+1E91B", "U+1E91C", "U+1E91D", "U+1E91E", "U+1E91F", "U+1E920",
     "U+1E921", "U+1E922", "U+1E923", "U+1E924", "U+1E925", "U+1E926", "U+1E927", "U+1E928",
     "U+1E929", "U+1E92A", "U+1E92B", "U+1E92C", "U+1E92D", "U+1E92E", "U+1E92F", "U+1E930",
     "U+1E931", "U+1E932", "U+1E933", "U+1E934", "U+1E935", "U+1E936", "U+1E937", "U+1E938",
     "U+1E939", "U+1E93A", "U+1E93B", "U+1E93C", "U+1E93D", "U+1E93E", "U+1E93F", "U+1E940",
     "U+1E941", "U+1E942", "U+1E943", "U+1F130", "U+1F131", "U+1F132", "U+1F133", "U+1F134",
     "U+1F135", "U+1F136", "U+1F137", "U+1F138", "U+1F139", "U+1F13A", "U+1F13B", "U+1F13C",
     "U+1F13D", "U+1F13E", "U+1F13F", "U+1F140", "U+1F141", "U+1F142", "U+1F143", "U+1F144",
     "U+1F145", "U+1F146", "U+1F147", "U+1F148", "U+1F149", "U+1F150", "U+1F151", "U+1F152",
     "U+1F153", "U+1F154", "U+1F155", "U+1F156", "U+1F157", "U+1F158", "U+1F159", "U+1F15A",
     "U+1F15B", "U+1F15C", "U+1F15D", "U+1F15E", "U+1F15F", "U+1F160", "U+1F161", "U+1F162",
     "U+1F163", "U+1F164", "U+1F165", "U+1F166", "U+1F167", "U+1F168", "U+1F169", "U+1F170",
     "U+1F171", "U+1F172", "U+1F173", "U+1F174", "U+1F175", "U+1F176", "U+1F177", "U+1F178",
     "U+1F179", "U+1F17A", "U+1F17B", "U+1F17C", "U+1F17D", "U+1F17E", "U+1F17F", "U+1F180",
     "U+1F181", "U+1F182", "U+1F183", "U+1F184", "U+1F185", "U+1F186", "U+1F187", "U+1F188",
     "U+1F189"}

CaseIgnorable ==
    {"'", ".", ":", "^", "U+0060", "¨", "­", "¯", "´", "·", "¸", "ʰ", "ʱ", "ʲ", "ʳ", "ʴ", "ʵ",
     "ʶ", "ʷ", "ʸ", "ʹ", "ʺ", "ʻ", "ʼ", "ʽ", "ʾ", "ʿ", "ˀ", "ˁ", "˂", "˃", "˄", "˅", "ˆ", "ˇ",
     "ˈ", "ˉ", "ˊ", "ˋ", "ˌ", "ˍ", "ˎ", "ˏ", "ː", "ˑ", "˒", "˓", "˔", "˕", "˖", "˗", "˘", "˙",
     "˚", "˛", "˜", "˝", "˞", "˟", "ˠ", "ˡ", "ˢ", "ˣ", "ˤ", "˥", "˦", "˧", "˨", "˩", "˪", "˫",
     "ˬ", "˭", "ˮ", "˯", "˰", "˱", "˲", "˳", "˴", "˵", "˶", "˷", "˸", "˹", "˺", "˻", "˼", "˽",
     "˾", "˿", "U+0300", "U+0301", "U+0302", "U+0303", "U+0304", "U+0305", "U+0306", "U+0307",
     "U+0308", "U+0309", "U+030A", "U+030B", "U+030C", "U+030D", "U+030E", "U+030F", "U+0310",
     "U+0311", "U+0312", "U+0313", "U+0314", "U+0315", "U+0316", "U+0317", "U+0318", "U+0319",
     "U+031A", "U+031B", "U+031C", "U+031D", "U+031E", "U+031F", "U+0320", "U+0321", "U+0322",
     "U+0323", "U+0324", "U+0325", "U+0326", "U+0327", "U+0328", "U+0329", "U+032A", "U+032B",
     "U+032C", "U+032D", "U+032E", "U+032F", "U+0330", "U+0331", "U+0332", "U+0333", "U+0334",
     "U+0335", "U+0336", "U+0337", "U+0338", "U+0339", "U+033A", "U+033B", "U+033C", "U+033D",
     "U+033E", "U+033F", "U+0340", "U+0341", "U+0342", "U+0343", "U+0344", "U+0345", "U+0346",
     "U+0347", "U+0348", "U+0349", "U+034A", "U+034B", "U+034C", "U+034D", "U+034E", "U+034F",
     "U+0350", "U+0351", "U+0352", "U+0353", "U+0354", "U+0355", "U+0356", "U+0357", "U+0358",
     "U+0359", "U+035A", "U+035B", "U+035C", "U+035D", "U+035E", "U+035F", "U+0360", "U+0361",
     "U+0362", "U+0363", "U+0364", "U+0365", "U+0366", "U+0367", "U+0368", "U+0369", "U+036A",
     "U+036B", "U+036C", "U+036D", "U+036E", "U+036F", "U+0374", "U+0375", "U+037A", "΄", "΅",
     "·", "҃", "҄", "҅", "҆", "҇", "҈", "҉", "U+0559", "U+055F", "֑", "֒", "֓", "֔", "֕", "֖",
     "֗", "֘", "֙", "֚", "֛", "֜", "֝", "֞", "֟", "֠", "֡", "֢", "֣", "֤", "֥", "֦", "֧", "֨",
     "֩", "֪", "֫", "֬", "֭", "֮", "֯", "ְ", "ֱ", "ֲ", "ֳ", "ִ", "ֵ", "ֶ", "ַ", "ָ", "ֹ", "ֺ",
     "ֻ", "ּ", "ֽ", "ֿ", "ׁ", "ׂ", "ׄ", "ׅ", "ׇ", "״", "U+0600", "U+0601", "U+0602", "U+0603",
     "U+0604", "U+0605", "U+0610", "U+0611", "U+0612", "U+0613", "U+0614", "U+0615", "U+0616",
     "U+0617", "U+0618", "U+0619", "U+061A", "U+061C", "U+0640", "U+064B", "U+064C", "U+064D",
     "U+064E", "U+064F", "U+0650", "U+0651", "U+0652", "U+0653", "U+0654", "U+0655", "U+0656",
     "U+0657", "U+0658", "U+0659", "U+065A", "U+065B", "U+065C", "U+065D", "U+065E", "U+065F",
     "U+0670", "ۖ", "ۗ", "ۘ", "ۙ", "ۚ", "ۛ", "ۜ", "۝", "۟", "۠", "ۡ", "ۢ", "ۣ", "ۤ", "ۥ", "ۦ",
     "ۧ", "ۨ", "۪", "۫", "۬", "ۭ", "U+070F", "U+0711", "U+0730", "U+0731", "U+0732", "U+0733",
     "U+0734", "U+0735", "U+0736", "U+0737", "U+0738", "U+0739", "U+073A", "U+073B", "U+073C",
     "U+073D", "U+073E", "U+073F", "U+0740", "U+0741", "U+0742", "U+0743", "U+0744", "U+0745",
     "U+0746", "U+0747", "U+0748", "U+0749", "U+074A", "ަ", "ާ", "ި", "ީ", "ު", "ޫ", "ެ", "ޭ",
     "ޮ", "ޯ", "ް", "߫", "߬", "߭", "߮", "߯", "߰", "߱", "߲", "߳", "ߴ", "ߵ", "ߺ", "߽", "U+0816",
     "U+0817", "U+0818", "U+0819", "U+081A", "U+081B", "U+081C", "U+081D", "U+081E", "U+081F",
     "U+0820", "U+0821", "U+0822", "U+0823", "U+0824", "U+0825", "U+0826", "U+0827", "U+0828",
     "U+0829", "U+082A", "U+082B", "U+082C", "U+082D", "U+0859", "U+085A", "U+085B", "࢈", "࢐",
     "࢑", "ࢗ", "࢘", "࢙", "࢚", "࢛", "࢜", "࢝", "࢞", "࢟", "ࣉ", "࣊", "࣋", "࣌", "࣍", "࣎", "࣏", "࣐",
     "࣑", "࣒", "࣓", "ࣔ", "ࣕ", "ࣖ", "ࣗ", "ࣘ", "ࣙ", "ࣚ", "ࣛ", "ࣜ", "ࣝ", "ࣞ", "ࣟ", "࣠", "࣡", "࣢",
     "ࣣ", "ࣤ", "ࣥ", "ࣦ", "ࣧ", "ࣨ", "ࣩ", "࣪", "࣫", "࣬", "࣭", "࣮", "࣯", "ࣰ", "ࣱ", "ࣲ", "ࣳ", "ࣴ",
     "ࣵ", "ࣶ", "ࣷ", "ࣸ", "ࣹ", "ࣺ", "ࣻ", "ࣼ", "ࣽ", "ࣾ", "ࣿ", "U+0900", "U+0901", "U+0902",
     "U+093A", "U+093C", "U+0941", "U+0942", "U+0943", "U+0944", "U+0945", "U+0946", "U+0947",
     "U+0948", "U+094D", "U+0951", "U+0952", "U+0953", "U+0954", "U+0955", "U+0956", "U+0957",
     "U+0962", "U+0963", "U+0971", "ঁ", "়", "ু", "ূ", "ৃ", "ৄ", "্", "ৢ", "ৣ", "৾", "U+0A01",
     "U+0A02", "U+0A3C", "U+0A41", "U+0A42", "U+0A47", "U+0A48", "U+0A4B", "U+0A4C", "U+0A4D",
     "U+0A51", "U+0A70", "U+0A71", "U+0A75", "ઁ", "ં", "઼", "ુ", "ૂ", "ૃ", "ૄ", "ૅ", "ે", "ૈ",
     "્", "ૢ", "ૣ", "ૺ", "ૻ", "ૼ", "૽", "૾", "૿", "U+0B01", "U+0B3C", "U+0B3F", "U+0B41",
     "U+0B42", "U+0B43", "U+0B44", "U+0B4D", "U+0B55", "U+0B56", "U+0B62", "U+0B63", "ஂ", "ீ",
     "்", "U+0C00", "U+0C04", "U+0C3C", "U+0C3E", "U+0C3F", "U+0C40", "U+0C46", "U+0C47",
     "U+0C48", "U+0C4A", "U+0C4B", "U+0C4C", "U+0C4D", "U+0C55", "U+0C56", "U+0C62", "U+0C63",
     "ಁ", "಼", "ಿ", "ೆ", "ೌ", "್", "ೢ", "ೣ", "U+0D00", "U+0D01", "U+0D3B", "U+0D3C", "U+0D41",
     "U+0D42", "U+0D43", "U+0D44", "U+0D4D", "U+0D62", "U+0D63", "ඁ", "්", "ි", "ී", "ු", "ූ",
     "U+0E31", "U+0E34", "U+0E35", "U+0E36", "U+0E37", "U+0E38", "U+0E39", "U+0E3A", "U+0E46",
     "U+0E47", "U+0E48", "U+0E49", "U+0E4A", "U+0E4B", "U+0E4C", "U+0E4D", "U+0E4E", "ັ", "ິ",
     "ີ", "ຶ", "ື", "ຸ", "ູ", "຺", "ົ", "ຼ", "ໆ", "່", "້", "໊", "໋", "໌", "ໍ", "໎", "U+0F18",
     "U+0F19", "U+0F35", "U+0F37", "U+0F39", "U+0F71", "U+0F72", "U+0F73", "U+0F74", "U+0F75",
     "U+0F76", "U+0F77", "U+0F78", "U+0F79", "U+0F7A", "U+0F7B", "U+0F7C", "U+0F7D", "U+0F7E",
     "ྀ", "ཱྀ", "ྂ", "ྃ", "྄", "྆", "྇", "ྍ", "ྎ", "ྏ", "ྐ", "ྑ", "ྒ", "ྒྷ", "ྔ", "ྕ", "ྖ", "ྗ",
     "ྙ", "ྚ", "ྛ", "ྜ", "ྜྷ", "ྞ", "ྟ", "ྠ", "ྡ", "ྡྷ", "ྣ", "ྤ", "ྥ", "ྦ", "ྦྷ", "ྨ", "ྩ", "ྪ",
     "ྫ", "ྫྷ", "ྭ", "ྮ", "ྯ", "ྰ", "ྱ", "ྲ", "ླ", "ྴ", "ྵ", "ྶ", "ྷ", "ྸ", "ྐྵ", "ྺ", "ྻ", "ྼ",
     "࿆", "U+102D", "U+102E", "U+102F", "U+1030", "U+1032", "U+1033", "U+1034", "U+1035",
     "U+1036", "U+1037", "U+1039", "U+103A", "U+103D", "U+103E", "U+1058", "U+1059", "U+105E",
     "U+105F", "U+1060", "U+1071", "U+1072", "U+1073", "U+1074", "ႂ", "ႅ", "ႆ", "ႍ", "ႝ", "ჼ",
     "U+135D", "U+135E", "U+135F", "U+1712", "U+1713", "U+1714", "U+1732", "U+1733", "U+1752",
     "U+1753", "U+1772", "U+1773", "឴", "឵", "ិ", "ី", "ឹ", "ឺ", "ុ", "ូ", "ួ", "ំ", "៉", "៊",
     "់", "៌", "៍", "៎", "៏", "័", "៑", "្", "៓", "ៗ", "៝", "U+180B", "U+180C", "U+180D",
     "U+180E", "U+180F", "U+1843", "ᢅ", "ᢆ", "ᢩ", "U+1920", "U+1921", "U+1922", "U+1927",
     "U+1928", "U+1932", "U+1939", "U+193A", "U+193B", "U+1A17", "U+1A18", "U+1A1B", "U+1A56",
     "U+1A58", "U+1A59", "U+1A5A", "U+1A5B", "U+1A5C", "U+1A5D", "U+1A5E", "U+1A60", "U+1A62",
     "U+1A65", "U+1A66", "U+1A67", "U+1A68", "U+1A69", "U+1A6A", "U+1A6B", "U+1A6C", "U+1A73",
     "U+1A74", "U+1A75", "U+1A76", "U+1A77", "U+1A78", "U+1A79", "U+1A7A", "U+1A7B", "U+1A7C",
     "U+1A7F", "ᪧ", "᪰", "᪱", "᪲", "᪳", "᪴", "᪵", "᪶", "᪷", "᪸", "᪹", "᪺", "᪻", "᪼", "᪽", "᪾",
     "ᪿ", "ᫀ", "᫁", "᫂", "᫃", "᫄", "᫅", "᫆", "᫇", "᫈", "᫉", "᫊", "᫋", "ᫌ", "ᫍ", "ᫎ", "᫏", "᫐",
     "᫑", "᫒", "᫓", "᫔", "᫕", "᫖", "᫗", "᫘", "᫙", "᫚", "᫛", "᫜", "᫝", "᫠", "᫡", "᫢", "᫣", "᫤",
     "᫥", "᫦", "᫧", "᫨", "᫩", "᫪", "᫫", "U+1B00", "U+1B01", "U+1B02", "U+1B03", "U+1B34",
     "U+1B36", "U+1B37", "U+1B38", "U+1B39", "U+1B3A", "U+1B3C", "U+1B42", "U+1B6B", "U+1B6C",
     "U+1B6D", "U+1B6E", "U+1B6F", "U+1B70", "U+1B71", "U+1B72", "U+1B73", "ᮀ", "ᮁ", "ᮢ", "ᮣ",
     "ᮤ", "ᮥ", "ᮨ", "ᮩ", "᮫", "ᮬ", "ᮭ", "᯦", "ᯨ", "ᯩ", "ᯭ", "ᯯ", "ᯰ", "ᯱ", "U+1C2C", "U+1C2D",
     "U+1C2E", "U+1C2F", "U+1C30", "U+1C31", "U+1C32", "U+1C33", "U+1C36", "U+1C37", "U+1C78",
     "U+1C79", "U+1C7A", "U+1C7B", "U+1C7C", "U+1C7D", "᳐", "᳑", "᳒", "᳔", "᳕", "᳖", "᳗", "᳘",
     "᳙", "᳚", "᳛", "᳜", "᳝", "᳞", "᳟", "᳠", "᳢", "᳣", "᳤", "᳥", "᳦", "᳧", "᳨", "᳭", "᳴", "᳸",
     "᳹", "U+1D2C", "U+1D2D", "U+1D2E", "U+1D2F", "U+1D30", "U+1D31", "U+1D32", "U+1D33",
     "U+1D34", "U+1D35", "U+1D36", "U+1D37", "U+1D38", "U+1D39", "U+1D3A", "U+1D3B", "U+1D3C",
     "U+1D3D", "U+1D3E", "U+1D3F", "U+1D40", "U+1D41", "U+1D42", "U+1D43", "U+1D44", "U+1D45",
     "U+1D46", "U+1D47", "U+1D48", "U+1D49", "U+1D4A", "U+1D4B", "U+1D4C", "U+1D4D", "U+1D4E",
     "U+1D4F", "U+1D50", "U+1D51", "U+1D52", "U+1D53", "U+1D54", "U+1D55", "U+1D56", "U+1D57",
     "U+1D58", "U+1D59", "U+1D5A", "U+1D5B", "U+1D5C", "U+1D5D", "U+1D5E", "U+1D5F", "U+1D60",
     "U+1D61", "U+1D62", "U+1D63", "U+1D64", "U+1D65", "U+1D66", "U+1D67", "U+1D68", "U+1D69",
     "U+1D6A", "U+1D78", "ᶛ", "ᶜ", "ᶝ", "ᶞ", "ᶟ", "ᶠ", "ᶡ", "ᶢ", "ᶣ", "ᶤ", "ᶥ", "ᶦ", "ᶧ", "ᶨ",
     "ᶩ", "ᶪ", "ᶫ", "ᶬ", "ᶭ", "ᶮ", "ᶯ", "ᶰ", "ᶱ", "ᶲ", "ᶳ", "ᶴ", "ᶵ", "ᶶ", "ᶷ", "ᶸ", "ᶹ", "ᶺ",
     "ᶻ", "ᶼ", "ᶽ", "ᶾ", "ᶿ", "᷀", "᷁", "᷂", "᷃", "᷄", "᷅", "᷆", "᷇", "᷈", "᷉", "᷊", "᷋", "᷌",
     "᷍", "᷎", "᷏", "᷐", "᷑", "᷒", "ᷓ", "ᷔ", "ᷕ", "ᷖ", "ᷗ", "ᷘ", "ᷙ", "ᷚ", "ᷛ", "ᷜ", "ᷝ", "ᷞ",
     "ᷟ", "ᷠ", "ᷡ", "ᷢ", "ᷣ", "ᷤ", "ᷥ", "ᷦ", "ᷧ", "ᷨ", "ᷩ", "ᷪ", "ᷫ", "ᷬ", "ᷭ", "ᷮ", "ᷯ", "ᷰ",
     "ᷱ", "ᷲ", "ᷳ", "ᷴ", "᷵", "᷶", "᷷", "᷸", "᷹", "᷺", "᷻", "᷼", "᷽", "᷾", "᷿", "᾽", "᾿", "῀",
     "῁", "῍", "῎", "῏", "῝", "῞", "῟", "῭", "΅", "`", "´", "῾", "U+200B", "U+200C", "U+200D",
     "U+200E", "U+200F", "U+2018", "U+2019", "U+2024", "U+2027", "U+202A", "U+202B", "U+202C",
     "U+202D", "U+202E", "U+2060", "U+2061", "U+2062", "U+2063", "U+2064", "U+2066", "U+2067",
     "U+2068", "U+2069", "U+206A", "U+206B", "U+206C", "U+206D", "U+206E", "U+206F", "U+2071",
     "U+207F", "ₐ", "ₑ", "ₒ", "ₓ", "ₔ", "ₕ", "ₖ", "ₗ", "ₘ", "ₙ", "ₚ", "ₛ", "ₜ", "⃐", "⃑", "⃒",
     "⃓", "⃔", "⃕", "⃖", "⃗", "⃘", "⃙", "⃚", "⃛", "⃜", "⃝", "⃞", "⃟", "⃠", "⃡", "⃢", "⃣", "⃤",
     "⃥", "⃦", "⃧", "⃨", "⃩", "⃪", "⃫", "⃬", "⃭", "⃮", "⃯", "⃰", "U+2C7C", "U+2C7D", "⳯", "⳰",
     "⳱", "U+2D6F", "U+2D7F", "ⷠ", "ⷡ", "ⷢ", "ⷣ", "ⷤ", "ⷥ", "ⷦ", "ⷧ", "ⷨ", "ⷩ", "ⷪ", "ⷫ", "ⷬ",
     "ⷭ", "ⷮ", "ⷯ", "ⷰ", "ⷱ", "ⷲ", "ⷳ", "ⷴ", "ⷵ", "ⷶ", "ⷷ", "ⷸ", "ⷹ", "ⷺ", "ⷻ", "ⷼ", "ⷽ", "ⷾ",
     "ⷿ", "U+2E2F", "U+3005", "U+302A", "U+302B", "U+302C", "U+302D", "U+3031", "U+3032",
     "U+3033", "U+3034", "U+3035", "U+303B", "゙", "゚", "゛", "゜", "ゝ", "ゞ", "ー", "ヽ", "ヾ",
     "U+A015", "ꓸ", "ꓹ", "ꓺ", "ꓻ", "ꓼ", "ꓽ", "U+A60C", "U+A66F", "U+A670", "U+A671", "U+A672",
     "U+A674", "U+A675", "U+A676", "U+A677", "U+A678", "U+A679", "U+A67A", "U+A67B", "U+A67C",
     "U+A67D", "U+A67F", "ꚜ", "ꚝ", "ꚞ", "ꚟ", "꛰", "꛱", "U+A700", "U+A701", "U+A702", "U+A703",
     "U+A704", "U+A705", "U+A706", "U+A707", "U+A708", "U+A709", "U+A70A", "U+A70B", "U+A70C",
     "U+A70D", "U+A70E", "U+A70F", "U+A710", "U+A711", "U+A712", "U+A713", "U+A714", "U+A715",
     "U+A716", "U+A717", "U+A718", "U+A719", "U+A71A", "U+A71B", "U+A71C", "U+A71D", "U+A71E",
     "U+A71F", "U+A720", "U+A721", "U+A770", "ꞈ", "꞉", "꞊", "꟱", "ꟲ", "ꟳ", "ꟴ", "ꟸ", "ꟹ",
     "U+A802", "U+A806", "U+A80B", "U+A825", "U+A826", "U+A82C", "꣄", "ꣅ", "꣠", "꣡", "꣢", "꣣",
     "꣤", "꣥", "꣦", "꣧", "꣨", "꣩", "꣪", "꣫", "꣬", "꣭", "꣮", "꣯", "꣰", "꣱", "ꣿ", "U+A926",
     "U+A927", "U+A928", "U+A929", "U+A92A", "U+A92B", "U+A92C", "U+A92D", "U+A947", "U+A948",
     "U+A949", "U+A94A", "U+A94B", "U+A94C", "U+A94D", "U+A94E", "U+A94F", "U+A950", "U+A951",
     "ꦀ", "ꦁ", "ꦂ", "꦳", "ꦶ", "ꦷ", "ꦸ", "ꦹ", "ꦼ", "ꦽ", "ꧏ", "ꧥ", "ꧦ", "U+AA29", "U+AA2A",
     "U+AA2B", "U+AA2C", "U+AA2D", "U+AA2E", "U+AA31", "U+AA32", "U+AA35", "U+AA36", "U+AA43",
     "U+AA4C", "U+AA70", "U+AA7C", "ꪰ", "ꪲ", "ꪳ", "ꪴ", "ꪷ", "ꪸ", "ꪾ", "꪿", "꫁", "ꫝ", "ꫬ", "ꫭ",
     "ꫳ", "ꫴ", "꫶", "U+AB5B", "U+AB5C", "U+AB5D", "U+AB5E", "U+AB5F", "U+AB69", "U+AB6A",
     "U+AB6B", "ꯥ", "ꯨ", "꯭", "U+FB1E", "﮲", "﮳", "﮴", "﮵", "﮶", "﮷", "﮸", "﮹", "﮺", "﮻", "﮼",
     "﮽", "﮾", "﮿", "﯀", "﯁", "﯂", "U+FE00", "U+FE01", "U+FE02", "U+FE03", "U+FE04", "U+FE05",
     "U+FE06", "U+FE07", "U+FE08", "U+FE09", "U+FE0A", "U+FE0B", "U+FE0C", "U+FE0D", "U+FE0E",
     "U+FE0F", "U+FE13", "U+FE20", "U+FE21", "U+FE22", "U+FE23", "U+FE24", "U+FE25", "U+FE26",
     "U+FE27", "U+FE28", "U+FE29", "U+FE2A", "U+FE2B", "U+FE2C", "U+FE2D", "U+FE2E", "U+FE2F",
     "U+FE52", "U+FE55", "﻿", "U+FF07", "U+FF0E", "U+FF1A", "U+FF3E", "U+FF40", "U+FF70", "ﾞ",
     "ﾟ", "￣", "￹", "￺", "￻", "U+101FD", "U+102E0", "U+10376", "U+10377", "U+10378", "U+10379",
     "U+1037A", "U+10780", "U+10781", "U+10782", "U+10783", "U+10784", "U+10785", "U+10787",
     "U+10788", "U+10789", "U+1078A", "U+1078B", "U+1078C", "U+1078D", "U+1078E", "U+1078F",
     "U+10790", "U+10791", "U+10792", "U+10793", "U+10794", "U+10795", "U+10796", "U+10797",
     "U+10798", "U+10799", "U+1079A", "U+1079B", "U+1079C", "U+1079D", "U+1079E", "U+1079F",
     "U+107A0", "U+107A1", "U+107A2", "U+107A3", "U+107A4", "U+107A5", "U+107A6", "U+107A7",
     "U+107A8", "U+107A9", "U+107AA", "U+107AB", "U+107AC", "U+107AD", "U+107AE", "U+107AF",
     "U+107B0", "U+107B2", "U+107B3", "U+107B4", "U+107B5", "U+107B6", "U+107B7", "U+107B8",
     "U+107B9", "U+107BA", "U+10A01", "U+10A02", "U+10A03", "U+10A05", "U+10A06", "U+10A0C",
     "U+10A0D", "U+10A0E", "U+10A0F", "U+10A38", "U+10A39", "U+10A3A", "U+10A3F", "U+10AE5",
     "U+10AE6", "U+10D24", "U+10D25", "U+10D26", "U+10D27", "U+10D4E", "U+10D69", "U+10D6A",
     "U+10D6B", "U+10D6C", "U+10D6D", "U+10D6F", "U+10EAB", "U+10EAC", "U+10EC5", "U+10EFA",
     "U+10EFB", "U+10EFC", "U+10EFD", "U+10EFE", "U+10EFF", "U+10F46", "U+10F47", "U+10F48",
     "U+10F49", "U+10F4A", "U+10F4B", "U+10F4C", "U+10F4D", "U+10F4E", "U+10F4F", "U+10F50",
     "U+10F82", "U+10F83", "U+10F84", "U+10F85", "U+11001", "U+11038", "U+11039", "U+1103A",
     "U+1103B", "U+1103C", "U+1103D", "U+1103E", "U+1103F", "U+11040", "U+11041", "U+11042",
     "U+11043", "U+11044", "U+11045", "U+11046", "U+11070", "U+11073", "U+11074", "U+1107F",
     "U+11080", "U+11081", "U+110B3", "U+110B4", "U+110B5", "U+110B6", "U+110B9", "U+110BA",
     "U+110BD", "U+110C2", "U+110CD", "U+11100", "U+11101", "U+11102", "U+11127", "U+11128",
     "U+11129", "U+1112A", "U+1112B", "U+1112D", "U+1112E", "U+1112F", "U+11130", "U+11131",
     "U+11132", "U+11133", "U+11134", "U+11173", "U+11180", "U+11181", "U+111B6", "U+111B7",
     "U+111B8", "U+111B9", "U+111BA", "U+111BB", "U+111BC", "U+111BD", "U+111BE", "U+111C9",
     "U+111CA", "U+111CB", "U+111CC", "U+111CF", "U+1122F", "U+11230", "U+11231", "U+11234",
     "U+11236", "U+11237", "U+1123E", "U+11241", "U+112DF", "U+112E3", "U+112E4", "U+112E5",
     "U+112E6", "U+112E7", "U+112E8", "U+112E9", "U+112EA", "U+11300", "U+11301", "U+1133B",
     "U+1133C", "U+11340", "U+11366", "U+11367", "U+11368", "U+11369", "U+1136A", "U+1136B",
     "U+1136C", "U+11370", "U+11371", "U+11372", "U+11373", "U+11374", "U+113BB", "U+113BC",
     "U+113BD", "U+113BE", "U+113BF", "U+113C0", "U+113CE", "U+113D0", "U+113D2", "U+113E1",
     "U+113E2", "U+11438", "U+11439", "U+1143A", "U+1143B", "U+1143C", "U+1143D", "U+1143E",
     "U+1143F", "U+11442", "U+11443", "U+11444", "U+11446", "U+1145E", "U+114B3", "U+114B4",
     "U+114B5", "U+114B6", "U+114B7", "U+114B8", "U+114BA", "U+114BF", "U+114C0", "U+114C2",
     "U+114C3", "U+115B2", "U+115B3", "U+115B4", "U+115B5", "U+115BC", "U+115BD", "U+115BF",
     "U+115C0", "U+115DC", "U+115DD", "U+11633", "U+11634", "U+11635", "U+11636", "U+11637",
     "U+11638", "U+11639", "U+1163A", "U+1163D", "U+1163F", "U+11640", "U+116AB", "U+116AD",
     "U+116B0", "U+116B1", "U+116B2", "U+116B3", "U+116B4", "U+116B5", "U+116B7", "U+1171D",
     "U+1171F", "U+11722", "U+11723", "U+11724", "U+11725", "U+11727", "U+11728", "U+11729",
     "U+1172A", "U+1172B", "U+1182F", "U+11830", "U+11831", "U+11832", "U+11833", "U+11834",
     "U+11835", "U+11836", "U+11837", "U+11839", "U+1183A", "U+1193B", "U+1193C", "U+1193E",
     "U+11943", "U+119D4", "U+119D5", "U+119D6", "U+119D7", "U+119DA", "U+119DB", "U+119E0",
     "U+11A01", "U+11A02", "U+11A03", "U+11A04", "U+11A05", "U+11A06", "U+11A07", "U+11A08",
     "U+11A09", "U+11A0A", "U+11A33", "U+11A34", "U+11A35", "U+11A36", "U+11A37", "U+11A38",
     "U+11A3B", "U+11A3C", "U+11A3D", "U+11A3E", "U+11A47", "U+11A51", "U+11A52", "U+11A53",
     "U+11A54", "U+11A55", "U+11A56", "U+11A59", "U+11A5A", "U+11A5B", "U+11A8A", "U+11A8B",
     "U+11A8C", "U+11A8D", "U+11A8E", "U+11A8F", "U+11A90", "U+11A91", "U+11A92", "U+11A93",
     "U+11A94", "U+11A95", "U+11A96", "U+11A98", "U+11A99", "U+11B60", "U+11B62", "U+11B63",
     "U+11B64", "U+11B66", "U+11C30", "U+11C31", "U+11C32", "U+11C33", "U+11C34", "U+11C35",
     "U+11C36", "U+11C38", "U+11C39", "U+11C3A", "U+11C3B", "U+11C3C", "U+11C3D", "U+11C3F",
     "U+11C92", "U+11C93", "U+11C94", "U+11C95", "U+11C96", "U+11C97", "U+11C98", "U+11C99",
     "U+11C9A", "U+11C9B", "U+11C9C", "U+11C9D", "U+11C9E", "U+11C9F", "U+11CA0", "U+11CA1",
     "U+11CA2", "U+11CA3", "U+11CA4", "U+11CA5", "U+11CA6", "U+11CA7", "U+11CAA", "U+11CAB",
     "U+11CAC", "U+11CAD", "U+11CAE", "U+11CAF", "U+11CB0", "U+11CB2", "U+11CB3", "U+11CB5",
     "U+11CB6", "U+11D31", "U+11D32", "U+11D33", "U+11D34", "U+11D35", "U+11D36", "U+11D3A",
     "U+11D3C", "U+11D3D", "U+11D3F", "U+11D40", "U+11D41", "U+11D42", "U+11D43", "U+11D44",
     "U+11D45", "U+11D47", "U+11D90", "U+11D91", "U+11D95", "U+11D97", "U+11DD9", "U+11EF3",
     "U+11EF4", "U+11F00", "U+11F01", "U+11F36", "U+11F37", "U+11F38", "U+11F39", "U+11F3A",
     "U+11F40", "U+11F42", "U+11F5A", "U+13430", "U+13431", "U+13432", "U+13433", "U+13434",
     "U+13435", "U+13436", "U+13437", "U+13438", "U+13439", "U+1343A", "U+1343B", "U+1343C",
     "U+1343D", "U+1343E", "U+1343F", "U+13440", "U+13447", "U+13448", "U+13449", "U+1344A",
     "U+1344B", "U+1344C", "U+1344D", "U+1344E", "U+1344F", "U+13450", "U+13451", "U+13452",
     "U+13453", "U+13454", "U+13455", "U+1611E", "U+1611F", "U+16120", "U+16121", "U+16122",
     "U+16123", "U+16124", "U+16125", "U+16126", "U+16127", "U+16128", "U+16129", "U+1612D",
     "U+1612E", "U+1612F", "U+16AF0", "U+16AF1", "U+16AF2", "U+16AF3", "U+16AF4", "U+16B30",
     "U+16B31", "U+16B32", "U+16B33", "U+16B34", "U+16B35", "U+16B36", "U+16B40", "U+16B41",
     "U+16B42", "U+16B43", "U+16D40", "U+16D41", "U+16D42", "U+16D6B", "U+16D6C", "U+16F4F",
     "U+16F8F", "U+16F90", "U+16F91", "U+16F92", "U+16F93", "U+16F94", "U+16F95", "U+16F96",
     "U+16F97", "U+16F98", "U+16F99", "U+16F9A", "U+16F9B", "U+16F9C", "U+16F9D", "U+16F9E",
     "U+16F9F", "U+16FE0", "U+16FE1", "U+16FE3", "U+16FE4", "U+16FF2", "U+16FF3", "U+1AFF0",
     "U+1AFF1", "U+1AFF2", "U+1AFF3", "U+1AFF5", "U+1AFF6", "U+1AFF7", "U+1AFF8", "U+1AFF9",
     "U+1AFFA", "U+1AFFB", "U+1AFFD", "U+1AFFE", "U+1BC9D", "U+1BC9E", "U+1BCA0", "U+1BCA1",
     "U+1BCA2", "U+1BCA3", "U+1CF00", "U+1CF01", "U+1CF02", "U+1CF03", "U+1CF04", "U+1CF05",
     "U+1CF06", "U+1CF07", "U+1CF08", "U+1CF09", "U+1CF0A", "U+1CF0B", "U+1CF0C", "U+1CF0D",
     "U+1CF0E", "U+1CF0F", "U+1CF10", "U+1CF11", "U+1CF12", "U+1CF13", "U+1CF14", "U+1CF15",
     "U+1CF16", "U+1CF17", "U+1CF18", "U+1CF19", "U+1CF1A", "U+1CF1B", "U+1CF1C", "U+1CF1D",
     "U+1CF1E", "U+1CF1F", "U+1CF20", "U+1CF21", "U+1CF22", "U+1CF23", "U+1CF24", "U+1CF25",
     "U+1CF26", "U+1CF27", "U+1CF28", "U+1CF29", "U+1CF2A", "U+1CF2B", "U+1CF2C", "U+1CF2D",
     "U+1CF30", "U+1CF31", "U+1CF32", "U+1CF33", "U+1CF34", "U+1CF35", "U+1CF36", "U+1CF37",
     "U+1CF38", "U+1CF39", "U+1CF3A", "U+1CF3B", "U+1CF3C", "U+1CF3D", "U+1CF3E", "U+1CF3F",
     "U+1CF40", "U+1CF41", "U+1CF42", "U+1CF43", "U+1CF44", "U+1CF45", "U+1CF46", "U+1D167",
     "U+1D168", "U+1D169", "U+1D173", "U+1D174", "U+1D175", "U+1D176", "U+1D177", "U+1D178",
     "U+1D179", "U+1D17A", "U+1D17B", "U+1D17C", "U+1D17D", "U+1D17E", "U+1D17F", "U+1D180",
     "U+1D181", "U+1D182", "U+1D185", "U+1D186", "U+1D187", "U+1D188", "U+1D189", "U+1D18A",
     "U+1D18B", "U+1D1AA", "U+1D1AB", "U+1D1AC", "U+1D1AD", "U+1D242", "U+1D243", "U+1D244",
     "U+1DA00", "U+1DA01", "U+1DA02", "U+1DA03", "U+1DA04", "U+1DA05", "U+1DA06", "U+1DA07",
     "U+1DA08", "U+1DA09", "U+1DA0A", "U+1DA0B", "U+1DA0C", "U+1DA0D", "U+1DA0E", "U+1DA0F",
     "U+1DA10", "U+1DA11", "U+1DA12", "U+1DA13", "U+1DA14", "U+1DA15", "U+1DA16", "U+1DA17",
     "U+1DA18", "U+1DA19", "U+1DA1A", "U+1DA1B", "U+1DA1C", "U+1DA1D", "U+1DA1E", "U+1DA1F",
     "U+1DA20", "U+1DA21", "U+1DA22", "U+1DA23", "U+1DA24", "U+1DA25", "U+1DA26", "U+1DA27",
     "U+1DA28", "U+1DA29", "U+1DA2A", "U+1DA2B", "U+1DA2C", "U+1DA2D", "U+1DA2E", "U+1DA2F",
     "U+1DA30", "U+1DA31", "U+1DA32", "U+1DA33", "U+1DA34", "U+1DA35", "U+1DA36", "U+1DA3B",
     "U+1DA3C", "U+1DA3D", "U+1DA3E", "U+1DA3F", "U+1DA40", "U+1DA41", "U+1DA42", "U+1DA43",
     "U+1DA44", "U+1DA45", "U+1DA46", "U+1DA47", "U+1DA48", "U+1DA49", "U+1DA4A", "U+1DA4B",
     "U+1DA4C", "U+1DA4D", "U+1DA4E", "U+1DA4F", "U+1DA50", "U+1DA51", "U+1DA52", "U+1DA53",
     "U+1DA54", "U+1DA55", "U+1DA56", "U+1DA57", "U+1DA58", "U+1DA59", "U+1DA5A", "U+1DA5B",
     "U+1DA5C", "U+1DA5D", "U+1DA5E", "U+1DA5F", "U+1DA60", "U+1DA61", "U+1DA62", "U+1DA63",
     "U+1DA64", "U+1DA65", "U+1DA66", "U+1DA67", "U+1DA68", "U+1DA69", "U+1DA6A", "U+1DA6B",
     "U+1DA6C", "U+1DA75", "U+1DA84", "U+1DA9B", "U+1DA9C", "U+1DA9D", "U+1DA9E", "U+1DA9F",
     "U+1DAA1", "U+1DAA2", "U+1DAA3", "U+1DAA4", "U+1DAA5", "U+1DAA6", "U+1DAA7", "U+1DAA8",
     "U+1DAA9", "U+1DAAA", "U+1DAAB", "U+1DAAC", "U+1DAAD", "U+1DAAE", "U+1DAAF", "U+1E000",
     "U+1E001", "U+1E002", "U+1E003", "U+1E004", "U+1E005", "U+1E006", "U+1E008", "U+1E009",
     "U+1E00A", "U+1E00B", "U+1E00C", "U+1E00D", "U+1E00E", "U+1E00F", "U+1E010", "U+1E011",
     "U+1E012", "U+1E013", "U+1E014", "U+1E015", "U+1E016", "U+1E017", "U+1E018", "U+1E01B",
     "U+1E01C", "U+1E01D", "U+1E01E", "U+1E01F", "U+1E020", "U+1E021", "U+1E023", "U+1E024",
     "U+1E026", "U+1E027", "U+1E028", "U+1E029", "U+1E02A", "U+1E030", "U+1E031", "U+1E032",
     "U+1E033", "U+1E034", "U+1E035", "U+1E036", "U+1E037", "U+1E038", "U+1E039", "U+1E03A",
     "U+1E03B", "U+1E03C", "U+1E03D", "U+1E03E", "U+1E03F", "U+1E040", "U+1E041", "U+1E042",
     "U+1E043", "U+1E044", "U+1E045", "U+1E046", "U+1E047", "U+1E048", "U+1E049", "U+1E04A",
     "U+1E04B", "U+1E04C", "U+1E04D", "U+1E04E", "U+1E04F", "U+1E050", "U+1E051", "U+1E052",
     "U+1E053", "U+1E054", "U+1E055", "U+1E056", "U+1E057", "U+1E058", "U+1E059", "U+1E05A",
     "U+1E05B", "U+1E05C", "U+1E05D", "U+1E05E", "U+1E05F", "U+1E060", "U+1E061", "U+1E062",
     "U+1E063", "U+1E064", "U+1E065", "U+1E066", "U+1E067", "U+1E068", "U+1E069", "U+1E06A",
     "U+1E06B", "U+1E06C", "U+1E06D", "U+1E08F", "U+1E130", "U+1E131", "U+1E132", "U+1E133",
     "U+1E134", "U+1E135", "U+1E136", "U+1E137", "U+1E138", "U+1E139", "U+1E13A", "U+1E13B",
     "U+1E13C", "U+1E13D", "U+1E2AE", "U+1E2EC", "U+1E2ED", "U+1E2EE", "U+1E2EF", "U+1E4EB",
     "U+1E4EC", "U+1E4ED", "U+1E4EE", "U+1E4EF", "U+1E5EE", "U+1E5EF", "U+1E6E3", "U+1E6E6",
     "U+1E6EE", "U+1E6EF", "U+1E6F5", "U+1E6FF", "U+1E8D0", "U+1E8D1", "U+1E8D2", "U+1E8D3",
     "U+1E8D4", "U+1E8D5", "U+1E8D6", "U+1E944", "U+1E945", "U+1E946", "U+1E947", "U+1E948",
     "U+1E949", "U+1E94A", "U+1E94B", "U+1F3FB", "U+1F3FC", "U+1F3FD", "U+1F3FE", "U+1F3FF",
     "U+E0001", "U+E0020", "U+E0021", "U+E0022", "U+E0023", "U+E0024", "U+E0025", "U+E0026",
     "U+E0027", "U+E0028", "U+E0029", "U+E002A", "U+E002B", "U+E002C", "U+E002D", "U+E002E",
     "U+E002F", "U+E0030", "U+E0031", "U+E0032", "U+E0033", "U+E0034", "U+E0035", "U+E0036",
     "U+E0037", "U+E0038", "U+E0039", "U+E003A", "U+E003B", "U+E003C", "U+E003D", "U+E003E",
     "U+E003F", "U+E0040", "U+E0041", "U+E0042", "U+E0043", "U+E0044", "U+E0045", "U+E0046",
     "U+E0047", "U+E0048", "U+E0049", "U+E004A", "U+E004B", "U+E004C", "U+E004D", "U+E004E",
     "U+E004F", "U+E0050", "U+E0051", "U+E0052", "U+E0053", "U+E0054", "U+E0055", "U+E0056",
     "U+E0057", "U+E0058", "U+E0059", "U+E005A", "U+E005B", "U+E005C", "U+E005D", "U+E005E",
     "U+E005F", "U+E0060", "U+E0061", "U+E0062", "U+E0063", "U+E0064", "U+E0065", "U+E0066",
     "U+E0067", "U+E0068", "U+E0069", "U+E006A", "U+E006B", "U+E006C", "U+E006D", "U+E006E",
     "U+E006F", "U+E0070", "U+E0071", "U+E0072", "U+E0073", "U+E0074", "U+E0075", "U+E0076",
     "U+E0077", "U+E0078", "U+E0079", "U+E007A", "U+E007B", "U+E007C", "U+E007D", "U+E007E",
     "U+E007F", "U+E0100", "U+E0101", "U+E0102", "U+E0103", "U+E0104", "U+E0105", "U+E0106",
     "U+E0107", "U+E0108", "U+E0109", "U+E010A", "U+E010B", "U+E010C", "U+E010D", "U+E010E",
     "U+E010F", "U+E0110", "U+E0111", "U+E0112", "U+E0113", "U+E0114", "U+E0115", "U+E0116",
     "U+E0117", "U+E0118", "U+E0119", "U+E011A", "U+E011B", "U+E011C", "U+E011D", "U+E011E",
     "U+E011F", "U+E0120", "U+E0121", "U+E0122", "U+E0123", "U+E0124", "U+E0125", "U+E0126",
     "U+E0127", "U+E0128", "U+E0129", "U+E012A", "U+E012B", "U+E012C", "U+E012D", "U+E012E",
     "U+E012F", "U+E0130", "U+E0131", "U+E0132", "U+E0133", "U+E0134", "U+E0135", "U+E0136",
     "U+E0137", "U+E0138", "U+E0139", "U+E013A", "U+E013B", "U+E013C", "U+E013D", "U+E013E",
     "U+E013F", "U+E0140", "U+E0141", "U+E0142", "U+E0143", "U+E0144", "U+E0145", "U+E0146",
     "U+E0147", "U+E0148", "U+E0149", "U+E014A", "U+E014B", "U+E014C", "U+E014D", "U+E014E",
     "U+E014F", "U+E0150", "U+E0151", "U+E0152", "U+E0153", "U+E0154", "U+E0155", "U+E0156",
     "U+E0157", "U+E0158", "U+E0159", "U+E015A", "U+E015B", "U+E015C", "U+E015D", "U+E015E",
     "U+E015F", "U+E0160", "U+E0161", "U+E0162", "U+E0163", "U+E0164", "U+E0165", "U+E0166",
     "U+E0167", "U+E0168", "U+E0169", "U+E016A", "U+E016B", "U+E016C", "U+E016D", "U+E016E",
     "U+E016F", "U+E0170", "U+E0171", "U+E0172", "U+E0173", "U+E0174", "U+E0175", "U+E0176",
     "U+E0177", "U+E0178", "U+E0179", "U+E017A", "U+E017B", "U+E017C", "U+E017D", "U+E017E",
     "U+E017F", "U+E0180", "U+E0181", "U+E0182", "U+E0183", "U+E0184", "U+E0185", "U+E0186",
     "U+E0187", "U+E0188", "U+E0189", "U+E018A", "U+E018B", "U+E018C", "U+E018D", "U+E018E",
     "U+E018F", "U+E0190", "U+E0191", "U+E0192", "U+E0193", "U+E0194", "U+E0195", "U+E0196",
     "U+E0197", "U+E0198", "U+E0199", "U+E019A", "U+E019B", "U+E019C", "U+E019D", "U+E019E",
     "U+E019F", "U+E01A0", "U+E01A1", "U+E01A2", "U+E01A3", "U+E01A4", "U+E01A5", "U+E01A6",
     "U+E01A7", "U+E01A8", "U+E01A9", "U+E01AA", "U+E01AB", "U+E01AC", "U+E01AD", "U+E01AE",
     "U+E01AF", "U+E01B0", "U+E01B1", "U+E01B2", "U+E01B3", "U+E01B4", "U+E01B5", "U+E01B6",
     "U+E01B7", "U+E01B8", "U+E01B9", "U+E01BA", "U+E01BB", "U+E01BC", "U+E01BD", "U+E01BE",
     "U+E01BF", "U+E01C0", "U+E01C1", "U+E01C2", "U+E01C3", "U+E01C4", "U+E01C5", "U+E01C6",
     "U+E01C7", "U+E01C8", "U+E01C9", "U+E01CA", "U+E01CB", "U+E01CC", "U+E01CD", "U+E01CE",
     "U+E01CF", "U+E01D0", "U+E01D1", "U+E01D2", "U+E01D3", "U+E01D4", "U+E01D5", "U+E01D6",
     "U+E01D7", "U+E01D8", "U+E01D9", "U+E01DA", "U+E01DB", "U+E01DC", "U+E01DD", "U+E01DE",
     "U+E01DF", "U+E01E0", "U+E01E1", "U+E01E2", "U+E01E3", "U+E01E4", "U+E01E5", "U+E01E6",
     "U+E01E7", "U+E01E8", "U+E01E9", "U+E01EA", "U+E01EB", "U+E01EC", "U+E01ED", "U+E01EE",
     "U+E01EF"}

LowerOf ==
    [c \in {UpperCase[i] : i \in DOMAIN UpperCase} |->
        LowerCase[CHOOSE i \in DOMAIN UpperCase : UpperCase[i] = c]]

\* The capital sigma at i ends a word: a cased letter comes before it, and
\* none after it, case-ignorable characters aside
IsFinalSigma(s, i) ==
    /\ \E j \in 1..(i - 1) :
          /\ s[j] \in Cased
          /\ \A k \in (j + 1)..(i - 1) : s[k] \in CaseIgnorable
    /\ ~\E j \in (i + 1)..Len(s) :
          /\ s[j] \in Cased
          /\ \A k \in (i + 1)..(j - 1) : s[k] \in CaseIgnorable

\* What toLowerCase puts for the character at i: the final form of a capital
\* sigma that ends a word, i and a combining dot above for the capital I with
\* dot above, and the lower-case letter of the table for any other
LowerAt(s, i) ==
    IF s[i] = "Σ" /\ IsFinalSigma(s, i) THEN <<"ς">>
    ELSE IF s[i] = "U+0130" THEN <<"i", "U+0307">>
    ELSE IF s[i] \in DOMAIN LowerOf THEN <<LowerOf[s[i]]>>
    ELSE <<s[i]>>

\* s.toLowerCase()
ToLowerCase(s) == Joined([i \in 1..Len(s) |-> LowerAt(s, i)], 1, Len(s))

\* "update-dotnet-sdk-"
BranchPrefix ==
    <<"u", "p", "d", "a", "t", "e", "-", "d", "o", "t", "n", "e", "t", "-",
      "s", "d", "k", "-">>

\* `update-dotnet-sdk-${versions.latest.sdkVersion}`.toLowerCase()
DerivedBranch(latestSdkVersion) == ToLowerCase(BranchPrefix \o latestSdkVersion)

(***************************************************************************)
(* Inputs                                                                   *)
(***************************************************************************)

\* The largest number of releases in a channel
MaxReleases == 3

\* "8.0."
ChannelPrefix == <<"8", ".", "0", ".">>

\* "-rc.1"
PreviewSuffix == <<"-", "r", "c", ".", "1">>

StableRuntime(p) == ChannelPrefix \o NatToStr(p)

PreviewRuntime(p) == ChannelPrefix \o NatToStr(p) \o PreviewSuffix

\* The runtime versions of a channel, oldest first: 8.0.0-rc.1, 8.0.0, 8.0.1,
\* ..., and the preview of the last patch before the last patch
RuntimeTimeline ==
    <<PreviewRuntime(0)>>
    \o [p \in 1..(MaxReleases - 1) |-> StableRuntime(p - 1)]
    \o <<PreviewRuntime(MaxReleases - 1), StableRuntime(MaxReleases - 1)>>

\* A feed lists its releases newest first; several releases may share a runtime
NewestFirst(rank, n) == \A i \in 1..n : \A j \in i..n : rank[i] >= rank[j]

\* SDK version 8.0.10i
SdkOfIndex(i) == ChannelPrefix \o <<"1", "0">> \o NatToStr(i)

\* An SDK version no release of a generated channel carries
AbsentSdk == ChannelPrefix \o <<"9", "9", "9">>

Cve(id) == [cveId |-> id, cveUrl |-> <<"u">> \o id]

CveA1 == Cve(<<"A", "1">>)

CveA10 == Cve(<<"A", "1", "0">>)

CveA2 == Cve(<<"A", "2">>)

\* The (security, cve-list) pairs of a release
Advisories ==
    {[security |-> FALSE, cveList |-> NullList],
     [security |-> FALSE, cveList |-> ListOf(<<CveA1>>)],
     [security |-> TRUE, cveList |-> ListOf(<<CveA1>>)],
     [security |-> TRUE, cveList |-> ListOf(<<CveA2, CveA10>>)]}

MakeRelease(i, runtimeVersion, sdkVersion, sdks, adv) ==
    [releaseNotes |-> <<"n">> \o NatToStr(i),
     runtime      |-> [version |-> runtimeVersion],
     sdk          |-> [version |-> sdkVersion],
     sdks         |-> sdks,
     security     |-> adv.security,
     cveList      |-> adv.cveList]

(***************************************************************************)
(* State                                                                    *)
(***************************************************************************)

VARIABLES
    input,      \* the arguments of a direct call, or the inputs of the runs
    output,     \* the direct call made and what it returned
    pc,         \* where the run of main.run stands
    options,    \* the UpdateOptions of the updater
    file,       \* the global.json file on disk
    fileWrites, \* how many times the run has written the file
    served,     \* the releases.json document the feed serves
    git,        \* the local repository
    remote,     \* the remote repository: its branches and pull requests
    gitLog,     \* the git commands executed, in order
    apiLog,     \* the GitHub API calls made, in order
    locals,     \* the locals of tryUpdateSdk and applySdkUpdate
    result,     \* the UpdateResult of tryUpdateSdk
    failure,    \* the message given to core.setFailed
    outputs     \* the values given to core.setOutput

callVars == <<input, output>>

runVars == <<pc, options, file, fileWrites, served, git, remote, gitLog, apiLog,
             locals, result, failure, outputs>>

vars == <<input, output, pc, options, file, fileWrites, served, git, remote,
          gitLog, apiLog, locals, result, failure, outputs>>

NoCall == [fn |-> "none"]

None == [none |-> TRUE]

\* No run of the action: the state of the specifications of direct calls
NoRun ==
    /\ pc = "none"
    /\ options = None
    /\ file = None
    /\ fileWrites = 0
    /\ served = None
    /\ git = None
    /\ remote = None
    /\ gitLog = <<>>
    /\ apiLog = <<>>
    /\ locals = None
    /\ result = None
    /\ failure = None
    /\ outputs = None

(***************************************************************************)
(* getLatestRelease applied to channels in which release i carries SDK      *)
(* 8.0.10i alone, with any runtime versions and advisories                  *)
(***************************************************************************)

InitDelta ==
    /\ \E n \in 1..MaxReleases :
         \E rank \in [1..n -> 1..Len(RuntimeTimeline)] :
         \E adv \in [1..n -> Advisories] :
         \E l \in {SdkOfIndex(i) : i \in 1..n} \cup {AbsentSdk} :
         \E v \in {SdkOfIndex(i) : i \in 1..n} \cup {AbsentSdk} :
            /\ NewestFirst(rank, n)
            /\ input = [sdkVersion |-> v,
                        channel |->
                          [latestSdk |-> l,
                           releases |-> [i \in 1..n |->
                              MakeRelease(i, RuntimeTimeline[rank[i]], SdkOfIndex(i),
                                          NullList, adv[i])]]]
    /\ output = NoCall
    /\ NoRun

\* DotNetSdkUpdater.getLatestRelease(input.sdkVersion, input.channel)
CallGetLatestRelease ==
    /\ output = NoCall
    /\ GetLatestRelease(input.sdkVersion, input.channel) # NeverReturns
    /\ output' = [fn |-> "getLatestRelease",
                  result |-> GetLatestRelease(input.sdkVersion, input.channel)]
    /\ UNCHANGED <<input, runVars>>

NextDelta == CallGetLatestRelease

SpecDelta == InitDelta /\ [][NextDelta]_vars

(***************************************************************************)
(* getReleaseForSdk (and getLatestRelease) applied to channels whose        *)
(* releases carry the SDK versions 8.0.100 and 8.0.200 as primary or        *)
(* alternate descriptors in any arrangement. Release i of n has runtime     *)
(* 8.0.(n-i); odd releases are security releases.                           *)
(***************************************************************************)

Sdk100 == ChannelPrefix \o <<"1", "0", "0">>

Sdk200 == ChannelPrefix \o <<"2", "0", "0">>

MatcherSdks == {Sdk100, Sdk200}

\* The values of a release's sdks property
MatcherAlternates ==
    {NullList, ListOf(<<>>)}
    \cup {ListOf(<<[version |-> v]>>) : v \in MatcherSdks}
    \cup {ListOf(<<[version |-> p[1]], [version |-> p[2]]>>) :
            p \in {q \in MatcherSdks \X MatcherSdks : q[1] # q[2]}}

AdvisoriesOfIndex(i) ==
    IF i % 2 = 1
    THEN [security |-> TRUE, cveList |-> ListOf(<<CveA1>>)]
    ELSE [security |-> FALSE, cveList |-> NullList]

InitMatcher ==
    /\ \E n \in 1..MaxReleases :
         \E sdk \in [1..n -> MatcherSdks] :
         \E sdks \in [1..n -> MatcherAlternates] :
         \E l \in MatcherSdks :
         \E v \in MatcherSdks :
            input = [sdkVersion |-> v,
                     channel |->
                       [latestSdk |-> l,
                        releases |-> [i \in 1..n |->
                           MakeRelease(i, StableRuntime(n - i), sdk[i], sdks[i],
                                       AdvisoriesOfIndex(i))]]]
    /\ output = NoCall
    /\ NoRun

\* DotNetSdkUpdater.getReleaseForSdk(input.sdkVersion, input.channel)
CallGetReleaseForSdk ==
    /\ output = NoCall
    /\ output' = [fn |-> "getReleaseForSdk",
                  result |-> GetReleaseForSdk(input.sdkVersion, input.channel)]
    /\ UNCHANGED <<input, runVars>>

NextMatcher == CallGetReleaseForSdk \/ CallGetLatestRelease

SpecMatcher == InitMatcher /\ [][NextMatcher]_vars

(***************************************************************************)
(* What the claims speak of, read off the input                             *)
(***************************************************************************)

Releases == input.channel.releases

\* The versions a release lists as alternate descriptors
AlternatesOf(r) ==
    IF r.sdks.isNull THEN {} ELSE {r.sdks.items[i].version : i \in DOMAIN r.sdks.items}

\* The releases (by position) with v as primary, and with v as an alternate
PrimaryAt(v) == {i \in DOMAIN Releases : Releases[i].sdk.version = v}

AlternateAt(v) == {i \in DOMAIN Releases : v \in AlternatesOf(Releases[i])}

First(S) == CHOOSE i \in S : \A j \in S : i <= j

ReturnedBy(fn) == output.fn = fn

\* The release-not-found error naming v
IsReleaseNotFound(res, v) ==
    /\ ~res.ok
    /\ res.error.message = "Failed to find release for .NET SDK version"
    /\ res.error.arg = v

\* res is the ReleaseInfo of release r with SDK version v
IsInfoOf(res, r, v) ==
    /\ res.ok
    /\ res.value.sdkVersion = v
    /\ res.value.runtimeVersion = r.runtime.version
    /\ res.value.releaseNotes = r.releaseNotes
    /\ res.value.security = r.security

\* C5: a version that is no release's primary SDK but an alternate of some
\* release resolves to the first release listing it, with the requested
\* version as sdkVersion and the release's runtime, notes and security flag.
C5_AlternateOnly ==
    (ReturnedBy("getReleaseForSdk")
        /\ PrimaryAt(input.sdkVersion) = {}
        /\ AlternateAt(input.sdkVersion) # {})
    => LET r == Releases[First(AlternateAt(input.sdkVersion))]
       IN  /\ IsInfoOf(output.result, r, input.sdkVersion)
           /\ output.result.value.sdkVersion # r.sdk.version

\* C5 witness: the version is an alternate of two releases, the first of which
\* is not the first release of the channel, and the call has returned.
C5_Witness ==
    /\ ReturnedBy("getReleaseForSdk")
    /\ PrimaryAt(input.sdkVersion) = {}
    /\ Cardinality(AlternateAt(input.sdkVersion)) >= 2
    /\ First(AlternateAt(input.sdkVersion)) > 1
    /\ output.result.ok

\* C6 as claimed: whenever the version is the primary SDK of at least one
\* release, the call returns the ReleaseInfo of a release whose primary matches.
C6_AnyPrimaryCount ==
    (ReturnedBy("getReleaseForSdk") /\ PrimaryAt(input.sdkVersion) # {})
    => \E i \in PrimaryAt(input.sdkVersion) :
          IsInfoOf(output.result, Releases[i], input.sdkVersion)

\* C6 amended: a version that is the primary SDK of exactly one release resolves
\* to that release, whatever releases list it as an alternate; a version that
\* is the primary SDK of two or more releases fails as release-not-found.
C6_UniquePrimary ==
    ReturnedBy("getReleaseForSdk")
    => /\ Cardinality(PrimaryAt(input.sdkVersion)) = 1
            => IsInfoOf(output.result,
                        Releases[First(PrimaryAt(input.sdkVersion))],
                        input.sdkVersion)
       /\ Cardinality(PrimaryAt(input.sdkVersion)) >= 2
            => IsReleaseNotFound(output.result, input.sdkVersion)

\* C6 witness: one release has the version as primary and an earlier release
\* lists it as an alternate; the call returned the former.
C6_Witness ==
    /\ ReturnedBy("getReleaseForSdk")
    /\ Cardinality(PrimaryAt(input.sdkVersion)) = 1
    /\ AlternateAt(input.sdkVersion) # {}
    /\ First(AlternateAt(input.sdkVersion)) < First(PrimaryAt(input.sdkVersion))
    /\ output.result.ok

\* C10: a version that is neither primary nor alternate of any release makes
\* getReleaseForSdk fail with release-not-found naming it, and getLatestRelease
\* fails, returning no delta, when the current version or latest-sdk is absent.
C10_AbsentVersionFails ==
    LET absent(v) == PrimaryAt(v) = {} /\ AlternateAt(v) = {}
    IN  /\ (ReturnedBy("getReleaseForSdk") /\ absent(input.sdkVersion))
              => IsReleaseNotFound(output.result, input.sdkVersion)
        /\ (ReturnedBy("getLatestRelease") /\ absent(input.sdkVersion))
              => IsReleaseNotFound(output.result, input.sdkVersion)
        /\ (ReturnedBy("getLatestRelease") /\ ~absent(input.sdkVersion)
              /\ absent(input.channel.latestSdk))
              => \/ IsReleaseNotFound(output.result, input.channel.latestSdk)
                 \/ IsReleaseNotFound(output.result, input.sdkVersion)

\* C10 witness: getLatestRelease has failed on a channel that holds the current
\* version but not its latest-sdk value.
C10_Witness ==
    /\ ReturnedBy("getLatestRelease")
    /\ PrimaryAt(input.sdkVersion) \cup AlternateAt(input.sdkVersion) # {}
    /\ PrimaryAt(input.channel.latestSdk) \cup AlternateAt(input.channel.latestSdk) = {}
    /\ ~output.result.ok

(***************************************************************************)
(* The delta claims. Versions are read off the timeline the inputs are      *)
(* drawn from, not through the code's split and parseInt.                   *)
(***************************************************************************)

RankOf(v) == CHOOSE k \in 1..Len(RuntimeTimeline) : RuntimeTimeline[k] = v

IsPreviewRank(k) == k = 1 \/ k = Len(RuntimeTimeline) - 1

PatchOfRank(k) ==
    IF k = 1 THEN 0
    ELSE IF k <= MaxReleases THEN k - 2
    ELSE MaxReleases - 1

IsPreview(i) == IsPreviewRank(RankOf(Releases[i].runtime.version))

PatchOf(i) == PatchOfRank(RankOf(Releases[i].runtime.version))

\* getLatestRelease has returned a delta
DeltaReturned == ReturnedBy("getLatestRelease") /\ output.result.ok

Delta == output.result.value

\* The releases the current version and latest-sdk resolve to
CurrentAt == First(PrimaryAt(input.sdkVersion) \cup AlternateAt(input.sdkVersion))

LatestAt ==
    First(PrimaryAt(input.channel.latestSdk) \cup AlternateAt(input.channel.latestSdk))

BothStable == ~IsPreview(CurrentAt) /\ ~IsPreview(LatestAt)

\* The stable releases whose patch lies strictly between current and latest
StrictlyBetween ==
    {i \in DOMAIN Releases :
        /\ ~IsPreview(i)
        /\ PatchOf(CurrentAt) < PatchOf(i)
        /\ PatchOf(i) < PatchOf(LatestAt)}

\* The releases the loop of lines 51-60 finds: for each patch from the current
\* one up to, not including, the latest one, the first release with that runtime
FoundByScan ==
    IF BothStable /\ PatchOf(LatestAt) - PatchOf(CurrentAt) > 1
    THEN {i \in DOMAIN Releases :
            /\ ~IsPreview(i)
            /\ PatchOf(CurrentAt) <= PatchOf(i)
            /\ PatchOf(i) < PatchOf(LatestAt)
            /\ \A j \in 1..(i - 1) :
                  Releases[j].runtime.version # Releases[i].runtime.version}
    ELSE {}

AdvisoryIds == {CveA1.cveId, CveA10.cveId, CveA2.cveId}

\* Ascending order of the identifiers: A1, A10, A2
IdPosition(id) ==
    CHOOSE k \in 1..3 : <<CveA1.cveId, CveA10.cveId, CveA2.cveId>>[k] = id

CveItems(i) == IF Releases[i].cveList.isNull THEN <<>> ELSE Releases[i].cveList.items

\* How often id occurs in the cve-lists of the releases in S
CountInLists(id, S) ==
    Cardinality({p \in S \X (1..2) :
                    p[2] <= Len(CveItems(p[1])) /\ CveItems(p[1])[p[2]].cveId = id})

\* How often id occurs among the advisories of the latest ReleaseInfo
CountInLatest(id) ==
    IF Releases[LatestAt].security THEN CountInLists(id, {LatestAt}) ELSE 0

CountInDelta(id) ==
    Cardinality({k \in DOMAIN Delta.securityIssues : Delta.securityIssues[k].id = id})

IsSortedById(issues) ==
    \A j \in DOMAIN issues : \A k \in DOMAIN issues :
        j < k => IdPosition(issues[j].id) <= IdPosition(issues[k].id)

Scanned(v) == \E k \in DOMAIN output.result.lookups : output.result.lookups[k] = v

\* C3 as claimed: for stable current and latest, the aggregate is latest's
\* security flag and advisories joined with those of exactly the releases whose
\* patch lies strictly between the two; the current and the latest patch are
\* not looked up.
C3_ScanStrictlyBetween ==
    (DeltaReturned /\ BothStable)
    => /\ Delta.security =
            (Releases[LatestAt].security \/ \E i \in StrictlyBetween : Releases[i].security)
       /\ \A id \in AdvisoryIds :
            CountInDelta(id) = CountInLatest(id) + CountInLists(id, StrictlyBetween)
       /\ ~Scanned(Releases[CurrentAt].runtime.version)
       /\ ~Scanned(Releases[LatestAt].runtime.version)

\* C4 as claimed: the aggregate security flag is true exactly when the current
\* release, the latest release or a skipped intermediate release is flagged.
C4_CurrentCounts ==
    DeltaReturned
    => Delta.security =
         \/ Releases[CurrentAt].security
         \/ Releases[LatestAt].security
         \/ BothStable /\ \E i \in StrictlyBetween : Releases[i].security

\* C4 amended: the aggregate security flag is true exactly when the latest
\* release is flagged or a release found by the gap scan is flagged, the scan
\* running only for stable versions more than one patch apart, from the current
\* patch up to, not including, the latest patch.
C4_LatestOrScanned ==
    DeltaReturned
    => Delta.security =
         (Releases[LatestAt].security \/ \E i \in FoundByScan : Releases[i].security)

\* C4 witness: the current release is security-flagged, the latest release is
\* the next patch and is not, and the delta returned is not security-flagged.
C4_Witness ==
    /\ DeltaReturned
    /\ BothStable
    /\ PatchOf(LatestAt) - PatchOf(CurrentAt) = 1
    /\ Releases[CurrentAt].security
    /\ ~Releases[LatestAt].security
    /\ ~Delta.security

\* C7: no two entries of the aggregate advisory list share an identifier (no
\* release of the inputs repeats an identifier within its own cve-list).
C7_NoDuplicateIds ==
    DeltaReturned => \A id \in AdvisoryIds : CountInDelta(id) <= 1

\* C8: the aggregate advisory list is sorted ascending by identifier.
C8_SortedById ==
    DeltaReturned => IsSortedById(Delta.securityIssues)

\* C8 witness: the gap scan ran and appended A1 behind the latest release's
\* A2, A10; the list returned is A1, A10, A2.
C8_Witness ==
    /\ DeltaReturned
    /\ output.result.lookups # <<>>
    /\ Releases[LatestAt].security
    /\ CveItems(LatestAt) = <<CveA2, CveA10>>
    /\ [k \in DOMAIN Delta.securityIssues |-> Delta.securityIssues[k].id]
          = <<CveA1.cveId, CveA10.cveId, CveA2.cveId>>

\* C9: when the current or the latest runtime version is a preview, nothing is
\* looked up and the aggregate is the latest release's security flag and its
\* advisories, sorted.
C9_PreviewSkipsScan ==
    (DeltaReturned /\ ~BothStable)
    => /\ output.result.lookups = <<>>
       /\ Delta.security = Releases[LatestAt].security
       /\ \A id \in AdvisoryIds : CountInDelta(id) = CountInLatest(id)
       /\ IsSortedById(Delta.securityIssues)

\* C9 witness: the current version is the preview 8.0.0-rc.1, the latest is two
\* patches on and not flagged, a security release lies in between, and the
\* delta returned is not security-flagged.
C9_Witness ==
    /\ DeltaReturned
    /\ IsPreview(CurrentAt)
    /\ ~IsPreview(LatestAt)
    /\ PatchOf(LatestAt) - PatchOf(CurrentAt) > 1
    /\ \E i \in StrictlyBetween : Releases[i].security
    /\ ~Releases[LatestAt].security
    /\ ~Delta.security

(***************************************************************************)
(* The run of the action: main.run, tryUpdateSdk, applySdkUpdate and        *)
(* createPullRequest. Every await is a step; a git command or an API call   *)
(* may fail whenever it is made.                                            *)
(***************************************************************************)

Sdk101 == ChannelPrefix \o <<"1", "0", "1">>

Sdk102 == ChannelPrefix \o <<"1", "0", "2">>

\* A channel whose latest SDK is 8.0.102 of the security release 8.0.2
StableFeed ==
    [latestSdk |-> Sdk102,
     releases |->
        << MakeRelease(1, StableRuntime(2), Sdk102, NullList,
                       [security |-> TRUE, cveList |-> ListOf(<<CveA1>>)]),
           MakeRelease(2, StableRuntime(1), Sdk101, NullList,
                       [security |-> FALSE, cveList |-> NullList]),
           MakeRelease(3, StableRuntime(0), Sdk100, NullList,
                       [security |-> TRUE, cveList |-> ListOf(<<CveA2, CveA10>>)]) >>]

\* A channel whose latest SDK is the preview "8.0.200-RC.1"
PreviewFeed ==
    [latestSdk |-> Sdk200 \o <<"-", "R", "C", ".", "1">>,
     releases |->
        << MakeRelease(1, PreviewRuntime(2), Sdk200 \o <<"-", "R", "C", ".", "1">>, NullList,
                       [security |-> FALSE, cveList |-> NullList]),
           MakeRelease(2, StableRuntime(1), Sdk101, NullList,
                       [security |-> TRUE, cveList |-> ListOf(<<CveA1>>)]),
           MakeRelease(3, StableRuntime(0), Sdk100, NullList,
                       [security |-> FALSE, cveList |-> NullList]) >>]

Feeds == {StableFeed, PreviewFeed}

(***************************************************************************)
(* JSON. The values of a global.json are strings and objects; an object is  *)
(* the sequence of its members in the order of the text. A text is a        *)
(* sequence of tokens.                                                      *)
(***************************************************************************)

JsonString(s) == [kind |-> "string", text |-> s, members |-> <<>>]

JsonObject(members) == [kind |-> "object", text |-> <<>>, members |-> members]

Member(key, value) == [key |-> key, value |-> value]

Punct(c) == [type |-> "punct", text |-> <<c>>]

Quoted(s) == [type |-> "string", text |-> s]

Newline == [type |-> "newline", text |-> <<>>]

\* The indentation at the start of a line: n spaces, nothing when n is 0
Pad(n) ==
    IF n = 0 THEN <<>> ELSE << [type |-> "space", text |-> [i \in 1..n |-> " "]] >>

RECURSIVE StringifyValue(_, _, _)
RECURSIVE StringifyMembers(_, _, _, _)
\* The members of an object from the k-th on, each on a line of its own
StringifyMembers(members, k, indent, level) ==
    IF k > Len(members)
    THEN <<>>
    ELSE <<Newline>> \o Pad(indent * (level + 1))
         \o <<Quoted(members[k].key), Punct(":")>> \o Pad(1)
         \o StringifyValue(members[k].value, indent, level + 1)
         \o (IF k < Len(members) THEN <<Punct(",")>> ELSE <<>>)
         \o StringifyMembers(members, k + 1, indent, level)

StringifyValue(v, indent, level) ==
    IF v.kind = "string"
    THEN <<Quoted(v.text)>>
    ELSE IF Len(v.members) = 0
    THEN <<Punct("{"), Punct("}")>>
    ELSE <<Punct("{")>>
         \o StringifyMembers(v.members, 1, indent, level)
         \o <<Newline>> \o Pad(indent * level) \o <<Punct("}")>>

\* JSON.stringify(value, null, indent)
JsonStringify(value, indent) == StringifyValue(value, indent, 0)

ParseFailure == [ok |-> FALSE, value |-> JsonObject(<<>>), next |-> 0]

RECURSIVE DigitsLess(_, _, _)
\* Of two digit strings of one length, a is the smaller number from digit i on
DigitsLess(a, b, i) ==
    IF i > Len(a) THEN FALSE
    ELSE IF a[i] = b[i] THEN DigitsLess(a, b, i + 1)
    ELSE DigitValue(a[i]) < DigitValue(b[i])

\* a < b for array indices, which have no leading zeros
IndexLess(a, b) == Len(a) < Len(b) \/ (Len(a) = Len(b) /\ DigitsLess(a, b, 1))

\* The key is an array index: an integer from 0 to 2^32 - 2 in its decimal form
IsArrayIndex(key) ==
    /\ Len(key) >= 1
    /\ \A i \in 1..Len(key) : IsDigit(key[i])
    /\ Len(key) = 1 \/ key[1] # "0"
    /\ ~IndexLess(Chars("4294967294"), key)

\* The properties of an object with a new one: array indices come first, in
\* ascending order, then the other keys in the order they were created
InsertMember(members, m) ==
    IF ~IsArrayIndex(m.key)
    THEN Append(members, m)
    ELSE SelectSeq(members, LAMBDA x : IsArrayIndex(x.key) /\ IndexLess(x.key, m.key))
         \o <<m>>
         \o SelectSeq(members, LAMBDA x : ~(IsArrayIndex(x.key) /\ IndexLess(x.key, m.key)))

\* The properties of an object after key was given the value: in the place of
\* the property when there is one already
PutMember(members, key, value) ==
    IF \E k \in 1..Len(members) : members[k].key = key
    THEN [k \in 1..Len(members) |->
            IF members[k].key = key THEN Member(key, value) ELSE members[k]]
    ELSE InsertMember(members, Member(key, value))

IsPunct(tokens, i, c) == i <= Len(tokens) /\ tokens[i] = Punct(c)

RECURSIVE ParseValue(_, _)
RECURSIVE ParseMembers(_, _, _)
\* The members of an object whose next key is token i. A key read again
\* keeps its place and takes the later value.
ParseMembers(tokens, i, acc) ==
    IF i + 1 > Len(tokens) \/ tokens[i].type # "string" \/ ~IsPunct(tokens, i + 1, ":")
    THEN ParseFailure
    ELSE LET v == ParseValue(tokens, i + 2)
         IN  IF ~v.ok
             THEN ParseFailure
             ELSE LET members == PutMember(acc, tokens[i].text, v.value)
                  IN  IF IsPunct(tokens, v.next, ",")
                      THEN ParseMembers(tokens, v.next + 1, members)
                      ELSE IF IsPunct(tokens, v.next, "}")
                      THEN [ok |-> TRUE, value |-> JsonObject(members),
                            next |-> v.next + 1]
                      ELSE ParseFailure

\* The value that starts at token i, and the token after it
ParseValue(tokens, i) ==
    IF i > Len(tokens)
    THEN ParseFailure
    ELSE IF tokens[i].type = "string"
    THEN [ok |-> TRUE, value |-> JsonString(tokens[i].text), next |-> i + 1]
    ELSE IF IsPunct(tokens, i, "{")
    THEN IF IsPunct(tokens, i + 1, "}")
         THEN [ok |-> TRUE, value |-> JsonObject(<<>>), next |-> i + 2]
         ELSE ParseMembers(tokens, i + 1, <<>>)
    ELSE ParseFailure

\* JSON.parse(text): a SyntaxError unless the text is one value
JsonParse(text) ==
    LET \* the tokens of the text that are not white space
        tokens == SelectSeq(text, LAMBDA t : t.type \in {"punct", "string"})
        r == ParseValue(tokens, 1)
    IN  IF r.ok /\ r.next = Len(tokens) + 1
        THEN Return(r.value)
        ELSE Throw("SyntaxError", <<>>)

HasKey(object, key) ==
    /\ object.kind = "object"
    /\ \E k \in 1..Len(object.members) : object.members[k].key = key

\* object[key]
Get(object, key) ==
    object.members[CHOOSE k \in 1..Len(object.members) :
                      object.members[k].key = key].value

\* object[key] = value
SetMember(object, key, value) ==
    [object EXCEPT !.members = PutMember(@, key, value)]

SdkKey == <<"s", "d", "k">>

VersionKey == <<"v", "e", "r", "s", "i", "o", "n">>

RollForwardKey == <<"r", "o", "l", "l", "F", "o", "r", "w", "a", "r", "d">>

ToolsKey == <<"t", "o", "o", "l", "s">>

\* What an if takes for true: every object, and every string but ''
Truthy(v) == v.kind = "object" \/ v.text # <<>>

\* globalJson.sdk && globalJson.sdk.version ? globalJson.sdk.version : '',
\* tryUpdateSdk lines 121-125. The value is whatever the manifest holds
\* there, a string or an object; a value without the property gives undefined.
SdkVersionOf(globalJson) ==
    IF /\ HasKey(globalJson, SdkKey)
       /\ Truthy(Get(globalJson, SdkKey))
       /\ HasKey(Get(globalJson, SdkKey), VersionKey)
       /\ Truthy(Get(Get(globalJson, SdkKey), VersionKey))
    THEN Get(Get(globalJson, SdkKey), VersionKey)
    ELSE JsonString(<<>>)

SetSdkVersion_SdkAlone(globalJson, sdkVersion) ==
    JsonObject(<<Member(SdkKey, JsonObject(<<Member(VersionKey, JsonString(sdkVersion))>>))>>)

\* globalJson.sdk.version = versions.latest.sdkVersion, line 361
SetSdkVersion(globalJson, sdkVersion) ==
    SetMember(globalJson, SdkKey,
              SetMember(Get(globalJson, SdkKey), VersionKey, JsonString(sdkVersion)))

LatestFeature == <<"l", "a", "t", "e", "s", "t", "F", "e", "a", "t", "u", "r", "e">>

\* { "tools": {}, "sdk": { "rollForward": "latestFeature", "version": v },
\*   "version": "1" }
VersionLast(v) ==
    JsonObject(<<Member(ToolsKey, JsonObject(<<>>)),
                 Member(SdkKey,
                        JsonObject(<<Member(RollForwardKey, JsonString(LatestFeature)),
                                     Member(VersionKey, JsonString(v))>>)),
                 Member(VersionKey, JsonString(<<"1">>))>>)

\* global.json: missing, not JSON, without sdk or sdk.version, with a version
\* that is no string, or with a version, which may be given twice or stand
\* among keys that are array indices; written with an indent of 4 and no end
\* of line, or on one line
GlobalJsonFiles ==
    LET \* { "sdk": { "version": v, "rollForward": "latestFeature" } }
        VersionFirst(v) ==
            JsonObject(<<Member(SdkKey,
                                JsonObject(<<Member(VersionKey, JsonString(v)),
                                             Member(RollForwardKey,
                                                    JsonString(LatestFeature))>>))>>)
        \* {"sdk":{"version":"8.0.999","version":"8.0.101"}}
        versionTwice ==
            <<Punct("{"), Quoted(SdkKey), Punct(":"), Punct("{"),
              Quoted(VersionKey), Punct(":"), Quoted(AbsentSdk), Punct(","),
              Quoted(VersionKey), Punct(":"), Quoted(Sdk101), Punct("}"), Punct("}")>>
        \* {"2":"b","sdk":{"version":"8.0.100"},"1":"a"}
        versionAmongIndices ==
            <<Punct("{"), Quoted(<<"2">>), Punct(":"), Quoted(<<"b">>), Punct(","),
              Quoted(SdkKey), Punct(":"), Punct("{"),
              Quoted(VersionKey), Punct(":"), Quoted(Sdk100), Punct("}"), Punct(","),
              Quoted(<<"1">>), Punct(":"), Quoted(<<"a">>), Punct("}")>>
        \* { "sdk": { "version": {} } }
        versionObject ==
            JsonObject(<<Member(SdkKey,
                                JsonObject(<<Member(VersionKey, JsonObject(<<>>))>>))>>)
        \* { "sdk": { "version": { "toString": "" } } }
        versionToString ==
            JsonObject(<<Member(SdkKey,
                                JsonObject(<<Member(VersionKey,
                                                    JsonObject(<<Member(Chars("toString"),
                                                                        JsonString(<<>>))>>))>>))>>)
    IN  {[exists |-> FALSE, text |-> <<>>],
         [exists |-> TRUE, text |-> <<Punct("{"), Quoted(SdkKey)>>],
         [exists |-> TRUE,
          text |-> JsonStringify(JsonObject(<<Member(ToolsKey, JsonObject(<<>>))>>), 4)],
         [exists |-> TRUE,
          text |-> JsonStringify(JsonObject(<<Member(SdkKey, JsonObject(<<>>))>>), 4)],
         [exists |-> TRUE, text |-> JsonStringify(versionObject, 4)],
         [exists |-> TRUE, text |-> JsonStringify(versionToString, 4)],
         [exists |-> TRUE, text |-> versionTwice],
         [exists |-> TRUE, text |-> versionAmongIndices]}
        \cup {[exists |-> TRUE, text |-> JsonStringify(VersionFirst(v), 4)] :
                v \in {<<>>, <<"8">>, Sdk100, Sdk102, AbsentSdk}}
        \cup {[exists |-> TRUE, text |-> JsonStringify(VersionLast(v), 4)] :
                v \in {Sdk100, Sdk102}}

MainBranch == <<"m", "a", "i", "n">>

\* The inputs of the action; an input that is not set is the empty string.
\* When set, branch-name is "Fix", channel "8.0" and the repository "o/r".
\* The name and the e-mail address of the user are set together or not at
\* all; a dry run, which never reads the labels, is given none.
OptionSets ==
    {o \in [branch        : {<<>>, <<"F", "i", "x">>},
            channel       : {<<>>, <<"8", ".", "0">>},
            commitMessage : {<<>>, Chars("Bump the SDK")},
            dryRun        : BOOLEAN,
            labels        : {<<>>, <<"a", ",", "b">>},
            repo          : {<<>>, <<"o", "/", "r">>},
            userName      : {<<>>, <<"b", "o", "t">>},
            userEmail     : {<<>>, <<"b", "@", "x">>}] :
        /\ (o.userName = <<>>) = (o.userEmail = <<>>)
        /\ o.dryRun => o.labels = <<>>}

\* The branch the run will use, should it come to use one
BranchOfRun(opts, feed) ==
    IF opts.branch # <<>> THEN opts.branch ELSE DerivedBranch(feed.latestSdk)

Init ==
    /\ output = NoCall
    /\ pc = "start"
    /\ options \in OptionSets
    /\ file \in GlobalJsonFiles
    \* what a run starts from: the inputs of the action and the manifest of
    \* the base branch
    /\ input = [options |-> options, manifest |-> file, run |-> 1]
    /\ fileWrites = 0
    /\ served \in Feeds
    \* the remote may hold the branch of the run already, and the local
    \* repository may have a remote-tracking ref of it, fetched before, which
    \* stays when the remote has lost the branch since; the local repository
    \* may have a branch of that name of its own. In a clone of a single
    \* branch remote.origin.fetch names the base branch alone, and no ref of
    \* another branch is set, nor is there a local branch but the base. With
    \* no repository known no command of the run reaches the remote, which is
    \* then left with the base branch.
    /\ \E onRemote \in BOOLEAN : \E tracked \in BOOLEAN : \E local \in BOOLEAN :
       \E single \in BOOLEAN :
         /\ single => ~tracked /\ ~local
         /\ options.repo = <<>> => ~onRemote /\ ~single
         /\ remote = [branches |-> {MainBranch} \cup
                                   (IF onRemote THEN {BranchOfRun(options, served)} ELSE {}),
                      pulls |-> <<>>,
                      labelled |-> {}]
         /\ git = [head |-> MainBranch,
                   branches |-> {MainBranch} \cup
                                (IF local THEN {BranchOfRun(options, served)} ELSE {}),
                   tracking |-> {MainBranch} \cup
                                (IF tracked THEN {BranchOfRun(options, served)} ELSE {}),
                   singleBranch |-> single,
                   staged |-> FALSE,
                   commits |-> <<>>,
                   userName |-> <<>>,
                   userEmail |-> <<>>]
    /\ gitLog = <<>>
    /\ apiLog = <<>>
    /\ locals = [globalJson |-> None, sdkVersion |-> JsonString(<<>>),
                 releaseChannel |-> None, update |-> None,
                 base |-> <<>>, pullRequest |-> None]
    /\ result = None
    /\ failure = None
    /\ outputs = None

Throws_CarriesOn(message) ==
    /\ failure' = [message |-> message, at |-> pc]
    /\ pc' = "commit"

\* A throw that reaches the catch of main.run: core.setFailed(error.message).
\* The failure remembers the step that threw.
Throws(message) ==
    /\ failure' = [message |-> message, at |-> pc]
    /\ pc' = "failed"

\* execGit ran this command. failed tells that execGit threw, because git
\* could not be started, or, for a command whose errors are not ignored,
\* because git exited with a code other than 0 or wrote to stderr; or that git
\* exited with a code other than 0 and the error was ignored. What a command
\* whose errors are ignored writes to stderr changes nothing.
Executed(cmd, failed) == gitLog' = Append(gitLog, [cmd |-> cmd, failed |-> failed])

\* main.run, lines 14-49
Start ==
    /\ pc = "start"
    /\ \/ /\ ~file.exists
          /\ Throws("The global.json file cannot be found.")
       \/ /\ file.exists
          /\ pc' = "load"
          /\ UNCHANGED failure
    /\ UNCHANGED <<callVars, options, file, fileWrites, served, git, remote, gitLog,
                   apiLog, locals, result, outputs>>

\* tryUpdateSdk, lines 119-139
LoadManifest ==
    /\ pc = "load"
    /\ LET parsed == JsonParse(file.text)
           globalJson == IF parsed.ok THEN parsed.value ELSE JsonObject(<<>>)
           sdkVersion == SdkVersionOf(globalJson)
           isString == sdkVersion.kind = "string"
           versionParts == Split(sdkVersion.text, ".")
       IN  \/ /\ ~parsed.ok
              /\ Throws(parsed.error.message)
              /\ UNCHANGED <<options, locals>>
           \/ /\ parsed.ok
              /\ ~Truthy(sdkVersion)
              /\ Throws(".NET SDK version cannot be found")
              /\ UNCHANGED <<options, locals>>
           \* sdkVersion.split is not a function
           \/ /\ parsed.ok
              /\ Truthy(sdkVersion)
              /\ options.channel = <<>>
              /\ ~isString
              /\ Throws("TypeError")
              /\ UNCHANGED <<options, locals>>
           \/ /\ parsed.ok
              /\ Truthy(sdkVersion)
              /\ options.channel = <<>>
              /\ isString
              /\ Len(versionParts) < 2
              /\ Throws(".NET SDK version is not valid")
              /\ UNCHANGED <<options, locals>>
           \/ /\ parsed.ok
              /\ Truthy(sdkVersion)
              /\ options.channel # <<>> \/ (isString /\ Len(versionParts) >= 2)
              /\ options' = [options EXCEPT !.channel =
                               IF @ = <<>>
                               THEN versionParts[1] \o <<".">> \o versionParts[2]
                               ELSE @]
              /\ locals' = [locals EXCEPT !.globalJson = globalJson,
                                          !.sdkVersion = sdkVersion]
              /\ pc' = "fetch"
              /\ UNCHANGED failure
    /\ UNCHANGED <<callVars, file, fileWrites, served, git, remote, gitLog, apiLog,
                   result, outputs>>

\* getDotNetReleaseChannel, lines 282-301
FetchChannel ==
    /\ pc = "fetch"
    /\ \/ /\ locals' = [locals EXCEPT !.releaseChannel = served]
          /\ pc' = "compute"
          /\ UNCHANGED failure
       \/ /\ Throws("Failed to get releases JSON for channel - HTTP status")
          /\ UNCHANGED locals
       \/ /\ Throws("Failed to get releases JSON for channel")
          /\ UNCHANGED locals
    /\ UNCHANGED <<callVars, options, file, fileWrites, served, git, remote, gitLog,
                   apiLog, result, outputs>>

InitialResult_LatestVersion(update) ==
    [pullRequestNumber |-> 0,
     pullRequestUrl    |-> <<>>,
     updated           |-> FALSE,
     security          |-> update.security,
     version           |-> update.latest.sdkVersion]

\* The result tryUpdateSdk starts from, lines 144-150
InitialResult(update) ==
    [pullRequestNumber |-> 0,
     pullRequestUrl    |-> <<>>,
     updated           |-> FALSE,
     security          |-> FALSE,
     version           |-> update.current.sdkVersion]

NeedsUpdate_Always(update) == TRUE

\* update.current.sdkVersion !== update.latest.sdkVersion, line 158
NeedsUpdate(update) == update.current.sdkVersion # update.latest.sdkVersion

\* getLatestRelease for the version the manifest holds. A version that is no
\* string is === to no version of a feed: neither filter of getReleaseForSdk
\* keeps a release, and line 324 puts the object into the message of the
\* error. An object with a member toString has no text: the member is no
\* function and valueOf gives the object back, so the template literal throws
\* a TypeError.
LatestReleaseFor(sdkVersion, channel) ==
    IF sdkVersion.kind = "string"
    THEN GetLatestRelease(sdkVersion.text, channel)
    ELSE IF HasKey(sdkVersion, Chars("toString"))
    THEN Throw("TypeError", <<>>)
    ELSE Throw("Failed to find release for .NET SDK version", Chars("[object Object]"))

\* tryUpdateSdk, lines 142-158 and 170-174
Compute ==
    /\ pc = "compute"
    /\ LET Returns(r) ==
               \/ /\ ~r.ok
                  /\ r # NeverReturns
                  /\ Throws(r.error.message)
                  /\ UNCHANGED <<locals, result>>
               \/ /\ r.ok
                  /\ ~NeedsUpdate(r.value)
                  /\ locals' = [locals EXCEPT !.update = r.value]
                  /\ result' = InitialResult(r.value)
                  /\ pc' = "outputs"
                  /\ UNCHANGED failure
               \/ /\ r.ok
                  /\ NeedsUpdate(r.value)
                  /\ locals' = [locals EXCEPT !.update = r.value]
                  /\ result' = InitialResult(r.value)
                  /\ pc' = "revParseHead"
                  /\ UNCHANGED failure
       IN  Returns(LatestReleaseFor(locals.sdkVersion, locals.releaseChannel))
    /\ UNCHANGED <<callVars, options, file, fileWrites, served, git, remote, gitLog,
                   apiLog, outputs>>

\* applySdkUpdate, line 358: git rev-parse --abbrev-ref HEAD
RevParseHead ==
    /\ pc = "revParseHead"
    /\ \/ /\ Executed("rev-parse --abbrev-ref HEAD", FALSE)
          /\ locals' = [locals EXCEPT !.base = git.head]
          /\ pc' = "write"
          /\ UNCHANGED failure
       \/ /\ Executed("rev-parse --abbrev-ref HEAD", TRUE)
          /\ Throws("git rev-parse failed")
          /\ UNCHANGED locals
    /\ UNCHANGED <<callVars, options, file, fileWrites, served, git, remote, apiLog,
                   result, outputs>>

\* The step after the manifest is written: the first of the git configuration
\* commands the options ask for, lines 376-396
AfterWrite(opts) ==
    IF opts.userName # <<>> THEN "configName"
    ELSE IF opts.userEmail # <<>> THEN "configEmail"
    ELSE IF opts.repo # <<>> THEN "remoteSetUrl"
    ELSE "branchExists"

AfterConfigName(opts) ==
    IF opts.userEmail # <<>> THEN "configEmail"
    ELSE IF opts.repo # <<>> THEN "remoteSetUrl"
    ELSE "branchExists"

AfterConfigEmail(opts) ==
    IF opts.repo # <<>> THEN "remoteSetUrl" ELSE "branchExists"

Rewritten_Untouched(f, globalJson) == f

\* JSON.stringify(globalJson, null, 2) + os.EOL written to the file, lines 362-364
Rewritten(f, globalJson) ==
    [f EXCEPT !.text = JsonStringify(globalJson, 2) \o <<Newline>>]

\* The SDK version a reader of the file finds in it
ManifestVersion(f) ==
    LET parsed == JsonParse(f.text)
    IN  IF parsed.ok /\ SdkVersionOf(parsed.value).kind = "string"
        THEN SdkVersionOf(parsed.value).text
        ELSE <<>>

\* applySdkUpdate, lines 361-374
WriteManifest ==
    /\ pc = "write"
    /\ LET globalJson == SetSdkVersion(locals.globalJson,
                                       locals.update.latest.sdkVersion)
       IN  /\ locals' = [locals EXCEPT !.globalJson = globalJson]
           /\ file' = Rewritten(file, globalJson)
    /\ fileWrites' = fileWrites + 1
    /\ options' = [options EXCEPT
                     !.branch = IF @ = <<>>
                                THEN DerivedBranch(locals.update.latest.sdkVersion)
                                ELSE @,
                     !.commitMessage =
                         IF @ = <<>>
                         THEN GenerateCommitMessage(locals.update.current.sdkVersion,
                                                    locals.update.latest.sdkVersion)
                         ELSE @]
    /\ pc' = AfterWrite(options)
    /\ UNCHANGED <<callVars, served, git, remote, gitLog, apiLog, result, failure,
                   outputs>>

\* line 377: git config user.name
ConfigUserName ==
    /\ pc = "configName"
    /\ \/ /\ Executed("config user.name", FALSE)
          /\ git' = [git EXCEPT !.userName = options.userName]
          /\ pc' = AfterConfigName(options)
          /\ UNCHANGED failure
       \/ /\ Executed("config user.name", TRUE)
          /\ Throws("git config failed")
          /\ UNCHANGED git
    /\ UNCHANGED <<callVars, options, file, fileWrites, served, remote, apiLog,
                   locals, result, outputs>>

\* line 382: git config user.email
ConfigUserEmail ==
    /\ pc = "configEmail"
    /\ \/ /\ Executed("config user.email", FALSE)
          /\ git' = [git EXCEPT !.userEmail = options.userEmail]
          /\ pc' = AfterConfigEmail(options)
          /\ UNCHANGED failure
       \/ /\ Executed("config user.email", TRUE)
          /\ Throws("git config failed")
          /\ UNCHANGED git
    /\ UNCHANGED <<callVars, options, file, fileWrites, served, remote, apiLog,
                   locals, result, outputs>>

\* line 387: git remote set-url origin
RemoteSetUrl ==
    /\ pc = "remoteSetUrl"
    /\ \/ /\ Executed("remote set-url origin", FALSE)
          /\ pc' = "fetchOrigin"
          /\ UNCHANGED failure
       \/ /\ Executed("remote set-url origin", TRUE)
          /\ Throws("git remote failed")
    /\ UNCHANGED <<callVars, options, file, fileWrites, served, git, remote, apiLog,
                   locals, result, outputs>>

\* line 388: git fetch origin, errors ignored: an exit code other than 0 is
\* passed over, a git that cannot be started is not (lines 263-267). The
\* remote-tracking refs of the branches fetched are set; no ref is removed.
FetchOrigin ==
    /\ pc = "fetchOrigin"
    /\ \/ /\ Executed("fetch origin", FALSE)
          \* the branches of the remote that remote.origin.fetch of the clone
          \* names: all of them, or the base branch alone in a clone of a
          \* single branch
          /\ git' = [git EXCEPT !.tracking =
                        @ \cup (IF git.singleBranch
                                THEN remote.branches \cap {MainBranch}
                                ELSE remote.branches)]
          /\ pc' = "branchExists"
          /\ UNCHANGED failure
       \/ /\ Executed("fetch origin", TRUE)
          /\ pc' = "branchExists"
          /\ UNCHANGED <<git, failure>>
       \/ /\ Executed("fetch origin", TRUE)
          /\ Throws("git fetch could not be started")
          /\ UNCHANGED git
    /\ UNCHANGED <<callVars, options, file, fileWrites, served, remote, apiLog,
                   locals, result, outputs>>

\* What git rev-parse --verify --quiet remotes/origin/<branch> prints: the
\* commit of the remote-tracking ref when the local repository has it, and
\* nothing, with exit code 1, when it has not
RevParseVerify(g, branch) ==
    IF branch \in g.tracking THEN <<"sha">> ELSE <<>>

\* if (branchExists) return undefined, lines 398-401; tryUpdateSdk then
\* returns its initial result, lines 161 and 174
AfterBranchCheck(branchExists) ==
    IF branchExists # <<>> THEN "outputs" ELSE "checkout"

\* applySdkUpdate, lines 396-401: the exit code of the command is ignored, a
\* git that cannot be started is not. A git that ends with another code than
\* 0 for a reason of its own has printed nothing, whatever refs the
\* repository has, and the code takes that for a branch that does not exist.
\* The log keeps, with the command, whether the repository had the ref.
BranchExists ==
    /\ pc = "branchExists"
    /\ LET Logged(failed) ==
               gitLog' = Append(gitLog, [cmd |-> "rev-parse --verify --quiet",
                                         failed |-> failed,
                                         ref |-> options.branch \in git.tracking])
           Printed(branchExists) ==
               /\ Logged(branchExists = <<>>)
               /\ pc' = AfterBranchCheck(branchExists)
               /\ UNCHANGED failure
       IN  \/ Printed(RevParseVerify(git, options.branch))
           \/ /\ Logged(TRUE)
              /\ pc' = AfterBranchCheck(<<>>)
              /\ UNCHANGED failure
           \/ /\ Logged(TRUE)
              /\ Throws("git rev-parse --verify could not be started")
    /\ UNCHANGED <<callVars, options, file, fileWrites, served, git, remote, apiLog,
                   locals, result, outputs>>

\* line 403: git checkout -b <branch>, errors ignored: an exit code other
\* than 0 is passed over, a git that cannot be started is not
Checkout ==
    /\ pc = "checkout"
    /\ \/ /\ options.branch \notin git.branches
          /\ Executed("checkout -b", FALSE)
          /\ git' = [git EXCEPT !.branches = @ \cup {options.branch},
                                !.head = options.branch]
          /\ pc' = "add"
          /\ UNCHANGED failure
       \/ /\ Executed("checkout -b", TRUE)
          /\ pc' = "add"
          /\ UNCHANGED <<git, failure>>
       \/ /\ Executed("checkout -b", TRUE)
          /\ Throws("git checkout could not be started")
          /\ UNCHANGED git
    /\ UNCHANGED <<callVars, options, file, fileWrites, served, remote, apiLog,
                   locals, result, outputs>>

\* line 406: git add <global.json>. The file may be staged and git still
\* write to stderr.
Add ==
    /\ pc = "add"
    /\ \/ /\ Executed("add", FALSE)
          /\ git' = [git EXCEPT !.staged = TRUE]
          /\ pc' = "commit"
          /\ UNCHANGED failure
       \/ /\ Executed("add", TRUE)
          /\ git' = [git EXCEPT !.staged = TRUE]
          /\ Throws("git add wrote to stderr")
       \/ /\ Executed("add", TRUE)
          /\ Throws("git add failed")
          /\ UNCHANGED git
    /\ UNCHANGED <<callVars, options, file, fileWrites, served, remote, apiLog,
                   locals, result, outputs>>

\* Who the committer may be: the name the environment gives, or else that of
\* user.name, as configured or as made up, and the address likewise, the
\* one apart from the other
Committers(g) ==
    LET \* the identity the environment of the run gives the committer
        \* (GIT_COMMITTER_NAME, GIT_COMMITTER_EMAIL): env <e@x>
        environment == [name |-> Chars("env"), email |-> Chars("e@x")]
        \* the identity git makes up from the account the run is made under
        system == [name |-> Chars("runner"), email |-> Chars("runner@host")]
    IN  [name  : {environment.name,
                  IF g.userName # <<>> THEN g.userName ELSE system.name},
         email : {environment.email,
                  IF g.userEmail # <<>> THEN g.userEmail ELSE system.email}]

\* The white space of git: space, tab, line feed and carriage return
GitSpace == {" ", "\t", "\n", "\r"}

\* The lines of a text, each without the line feed that ends it; the last
\* line need not be ended
LinesOf(text) ==
    LET pieces == Split(text, "\n")
    IN  IF pieces[Len(pieces)] = <<>> THEN SubSeq(pieces, 1, Len(pieces) - 1) ELSE pieces

\* strbuf_stripspace: white space at the end of a line goes, empty lines at the
\* start and the end go, runs of empty lines become one
StripSpace(lines) ==
    LET kept(k) == IF \A i \in 1..Len(lines[k]) : lines[k][i] \in GitSpace THEN 0
                   ELSE CHOOSE i \in 1..Len(lines[k]) :
                           /\ lines[k][i] \notin GitSpace
                           /\ \A j \in (i + 1)..Len(lines[k]) : lines[k][j] \in GitSpace
        stripped == [k \in 1..Len(lines) |-> SubSeq(lines[k], 1, kept(k))] \o <<>>
        full == {k \in 1..Len(lines) : stripped[k] # <<>>}
        stays(k) == \/ k \in full
                    \/ /\ k - 1 \in full
                       /\ \E j \in full : j > k
        left == SelectSeq([k \in 1..Len(lines) |-> k], stays)
    IN  [i \in 1..Len(left) |-> stripped[left[i]]] \o <<>>

\* starts_with: the line begins with the prefix
StartsWith(line, prefix) ==
    Len(line) >= Len(prefix) /\ SubSeq(line, 1, Len(prefix)) = prefix

\* The scan of ignore_non_trailer over the lines from lo to hi, from the state
\* at: boc is the line the comments at the end begin at, 0 for none (the
\* first line is never taken for it)
RECURSIVE FooterScan(_, _, _, _)
FooterScan(lines, lo, hi, at) ==
    IF lo > hi THEN at
    ELSE IF lo < hi
    THEN LET half == FooterScan(lines, lo, (lo + hi) \div 2, at)
         IN  IF half.boc >= 0
             THEN FooterScan(lines, (lo + hi) \div 2 + 1, hi, half)
             ELSE half
    ELSE LET line == lines[lo]
             first == IF at.boc = 0 /\ lo > 1 THEN lo ELSE at.boc
         IN  IF line = <<>> \/ line[1] = "#"
             THEN [at EXCEPT !.boc = first]
             ELSE IF line = Chars("Conflicts:")
             THEN [boc |-> first, conflicts |-> TRUE]
             ELSE IF at.conflicts /\ line[1] = "\t"
             THEN at
             ELSE IF at.boc # 0
             THEN [boc |-> 0, conflicts |-> FALSE]
             ELSE at

\* ignore_non_trailer: how many lines at the end are comments, empty lines
\* and lists of conflicts, or follow the line that cuts the message off
IgnoreNonTrailer(lines) ==
    LET \* the line that cuts a commit message off
        cut == Chars("# ------------------------ >8 ------------------------")
        cuts == {k \in 1..Len(lines) : lines[k] = cut}
        cutoff == IF cuts = {} THEN Len(lines) + 1
                  ELSE CHOOSE k \in cuts : \A j \in cuts : k <= j
        end == FooterScan(lines, 1, cutoff - 1, [boc |-> 0, conflicts |-> FALSE])
    IN  IF end.boc # 0 THEN Len(lines) - end.boc + 1 ELSE Len(lines) - cutoff + 1

\* find_separator: where the colon of a trailer stands in the line, after a
\* token of letters, digits and hyphens and white space behind it; 0 when
\* the line has none
TokenChars ==
    LET token == Chars("abcdefghijklmnopqrstuvwxyzABCDEFGHIJKLMNOPQRSTUVWXYZ0123456789-")
    IN  {token[i] : i \in 1..Len(token)}

Separator(line) ==
    LET inToken(c) == c \in TokenChars
        colons == {i \in 1..Len(line) : line[i] = ":"}
        at == CHOOSE i \in colons : \A j \in colons : i <= j
        spaces == {i \in 1..(at - 1) : line[i] \in {" ", "\t"}}
    IN  IF colons = {} THEN 0
        ELSE IF /\ \A i \in 1..(at - 1) : inToken(line[i]) \/ i \in spaces
                /\ 1 \notin spaces
                /\ \A i \in spaces : \A j \in (i + 1)..(at - 1) : j \in spaces
        THEN at
        ELSE 0

\* The first character of the line, ended by its line feed, is white space
SpaceFirst(line) == line = <<>> \/ line[1] \in GitSpace

\* The line git signs a commit off with begins so
SignedOffBy == Chars("Signed-off-by: ")

\* find_trailer_start: the line the trailers begin at, Len(lines) + 1 when
\* the message ends in none. The first paragraph is the title; the trailers
\* are the lines after the last empty line, when all of them are trailers, or
\* when one is of git's own making and one in four is a trailer.
FindTrailerStart(lines) ==
    LET n == Len(lines)
        comment(k) == lines[k] # <<>> /\ lines[k][1] = "#"
        blank(k) == \A i \in 1..Len(lines[k]) : lines[k][i] \in GitSpace
        breaks == {k \in 1..n : ~comment(k) /\ blank(k)}
        Lowest(ks) == CHOOSE k \in ks : \A j \in ks : k <= j
        Highest(ks) == CHOOSE k \in ks : \A j \in ks : j <= k
        \* a line that goes on the trailer above it
        Continues(k, block, trailer) ==
            /\ SpaceFirst(lines[k])
            /\ \E j \in trailer :
                  /\ j < k
                  /\ \A i \in (j + 1)..(k - 1) :
                        i \in block \ trailer /\ SpaceFirst(lines[i])
        Conforms(generated, trailers, others) ==
            \/ generated # {} /\ trailers * 3 >= others
            \/ trailers > 0 /\ others = 0
        \* the last paragraph, the lines of it that git makes itself, and
        \* its trailers
        Counted(b, block, generated, trailer) ==
            IF Conforms(generated, Cardinality(trailer),
                        Cardinality({k \in block \ trailer :
                                        ~Continues(k, block, trailer)}))
            THEN b + 1
            ELSE n + 1
        Sorted(b, block, generated) ==
            Counted(b, block, generated,
                    generated \cup {k \in block : /\ Separator(lines[k]) > 1
                                                  /\ ~SpaceFirst(lines[k])})
        Paragraph(b, block) ==
            Sorted(b, block,
                   {k \in block :
                       \/ StartsWith(lines[k], SignedOffBy)
                       \/ StartsWith(lines[k], Chars("(cherry picked from commit "))})
        \* the last line that is no comment and not blank, and the last
        \* break above it
        Upto(last) == Paragraph(Highest({k \in breaks : k < last}),
                                {k \in (Highest({j \in breaks : j < last}) + 1)..last :
                                    ~comment(k)})
        Body(full) == IF full = {} THEN n + 1 ELSE Upto(Highest(full))
    IN  Body({k \in (IF breaks = {} THEN n + 1 ELSE Lowest(breaks))..n :
                 ~comment(k) /\ ~blank(k)})

\* What append_signoff finds at the end of the message: how many lines it
\* keeps before the comments, whether the message ends in trailers, and the
\* last of them, lines that go on a trailer counted with it
Footer(lines) ==
    LET Trailers(keep, head, start, end) ==
            LET separated == {j \in start..end : Separator(head[j]) > 1}
                merged(k) == /\ SpaceFirst(head[k])
                             /\ \E j \in separated :
                                   /\ j < k
                                   /\ \A i \in (j + 1)..(k - 1) : SpaceFirst(head[i])
            IN  [keep |-> keep,
                 trailers |-> start <= end,
                 last |-> IF start <= end
                          THEN head[CHOOSE k \in start..end :
                                       /\ ~merged(k)
                                       /\ \A j \in (k + 1)..end : merged(j)]
                          ELSE <<>>]
        Before(keep, head, end) ==
            Trailers(keep, head, FindTrailerStart(SubSeq(head, 1, end)), end)
        Message(keep, head) == Before(keep, head, keep - IgnoreNonTrailer(head))
        Kept(keep) == Message(keep, SubSeq(lines, 1, keep))
    IN  Kept(Len(lines) - IgnoreNonTrailer(lines))

\* append_signoff: the lines with the Signed-off-by line put in behind the
\* message and before the comments at its end: after an empty line, unless
\* the message ends in trailers, and not at all when the last of the
\* trailers is this very line
AppendSignoff(lines, footer, sob) ==
    LET keep == footer.keep
        head == SubSeq(lines, 1, keep)
        there == \/ head = <<sob>>
                 \/ footer.trailers /\ footer.last = sob
        room == IF head = <<sob>> \/ footer.trailers THEN <<>>
                ELSE IF keep = 0 THEN << <<>>, <<>> >>
                ELSE IF head = << <<>> >> \/ head[keep] # <<>> THEN << <<>> >>
                ELSE <<>>
    IN  head \o room \o (IF there THEN <<>> ELSE <<sob>>)
             \o SubSeq(lines, keep + 1, Len(lines))

\* The name or the address as git puts it into an identity: without the
\* crud at its ends, and without line feeds and angle brackets
WithoutCrud(text) ==
    LET crud == {" ", "\t", "\n", "\f", "\r", ".", ",", ":", ";", "<", ">", "\"", "\\", "'",
                 "U+0001", "U+0002", "U+0003", "U+0004", "U+0005", "U+0006", "U+0007",
                 "U+0008", "U+000B", "U+000E", "U+000F", "U+0010", "U+0011", "U+0012",
                 "U+0013", "U+0014", "U+0015", "U+0016", "U+0017", "U+0018", "U+0019",
                 "U+001A", "U+001B", "U+001C", "U+001D", "U+001E", "U+001F"}
        solid == {i \in 1..Len(text) : text[i] \notin crud}
        from == CHOOSE i \in solid : \A j \in solid : i <= j
        to == CHOOSE i \in solid : \A j \in solid : j <= i
    IN  IF solid = {} THEN <<>>
        ELSE SelectSeq(SubSeq(text, from, to), LAMBDA c : c \notin {"\n", "<", ">"})

\* The message of the commit that git commit -m <message> -s makes for this
\* committer, of the lines of the message as strbuf_stripspace leaves them
\* and what append_signoff finds at their end; no text at all when git makes
\* no commit: the committer has no name, or the message holds nothing but
\* white space and Signed-off-by lines
SignedOff(lines, footer, committer) ==
    LET Text(name, signed) ==
            IF \/ name = <<>>
               \/ \A k \in 1..Len(signed) :
                     signed[k] = <<>> \/ StartsWith(signed[k], SignedOffBy)
            THEN <<>>
            ELSE Joined([k \in 1..Len(signed) |-> signed[k] \o <<"\n">>], 1, Len(signed))
        By(name) ==
            Text(name, StripSpace(AppendSignoff(lines, footer,
                    SignedOffBy \o name \o Chars(" <")
                    \o WithoutCrud(committer.email) \o Chars(">"))))
    IN  By(WithoutCrud(committer.name))

\* The commit git makes: on the branch checked out, with the staged manifest
Committed(g, message, sdkVersion) ==
    [g EXCEPT !.staged = FALSE,
              !.commits = Append(@, [branch |-> g.head,
                                     message |-> message,
                                     sdkVersion |-> sdkVersion])]

\* line 409: git commit -m <message> -s. The commit may be made and git still
\* write to stderr; no commit is made of a message that git finds empty.
Commit ==
    /\ pc = "commit"
    /\ \/ LET Made(message, sdkVersion) ==
                  /\ message # <<>>
                  /\ git' = Committed(git, message, sdkVersion)
                  /\ \/ /\ Executed("commit", FALSE)
                        /\ pc' = "log"
                        /\ UNCHANGED failure
                     \/ /\ Executed("commit", TRUE)
                        /\ Throws("git commit wrote to stderr")
              Signed(lines, footer, sdkVersion) ==
                  \E committer \in Committers(git) :
                     Made(SignedOff(lines, footer, committer), sdkVersion)
              Cleaned(lines) == Signed(lines, Footer(lines), ManifestVersion(file))
          IN  Cleaned(StripSpace(LinesOf(options.commitMessage)))
       \/ /\ Executed("commit", TRUE)
          /\ Throws("git commit failed")
          /\ UNCHANGED git
    /\ UNCHANGED <<callVars, options, file, fileWrites, served, remote, apiLog,
                   locals, result, outputs>>

\* line 411: git log --format='%H' -n 1
Log ==
    /\ pc = "log"
    /\ \/ /\ Executed("log", FALSE)
          /\ pc' = "push"
          /\ UNCHANGED failure
       \/ /\ Executed("log", TRUE)
          /\ Throws("git log failed")
    /\ UNCHANGED <<callVars, options, file, fileWrites, served, git, remote, apiLog,
                   locals, result, outputs>>

\* if (baseBranch), tryUpdateSdk line 161
AfterApply(baseBranch) ==
    IF baseBranch # <<>> THEN "createPull" ELSE "outputs"

\* lines 416-421: git push -u origin <branch>, errors ignored, unless this is a
\* dry run or no repository is known; then return base. Only a branch the
\* local repository has can be pushed; its remote-tracking ref is set when
\* remote.origin.fetch names the branch, so not in a clone of a single
\* branch. An exit code other than 0 is passed over, a git that cannot be
\* started is not.
Push ==
    /\ pc = "push"
    /\ \/ /\ ~options.dryRun /\ options.repo # <<>>
          /\ options.branch \in git.branches
          /\ Executed("push -u origin", FALSE)
          /\ remote' = [remote EXCEPT !.branches = @ \cup {options.branch}]
          /\ git' = [git EXCEPT !.tracking =
                        IF git.singleBranch THEN @ ELSE @ \cup {options.branch}]
          /\ pc' = AfterApply(locals.base)
          /\ UNCHANGED failure
       \/ /\ ~options.dryRun /\ options.repo # <<>>
          /\ Executed("push -u origin", TRUE)
          /\ pc' = AfterApply(locals.base)
          /\ UNCHANGED <<git, remote, failure>>
       \/ /\ ~options.dryRun /\ options.repo # <<>>
          /\ Executed("push -u origin", TRUE)
          /\ Throws("git push could not be started")
          /\ UNCHANGED <<git, remote>>
       \/ /\ options.dryRun \/ options.repo = <<>>
          /\ pc' = AfterApply(locals.base)
          /\ UNCHANGED <<git, remote, gitLog, failure>>
    /\ UNCHANGED <<callVars, options, file, fileWrites, served, apiLog, locals,
                   result, outputs>>

\* The pull request GitHub creates for the request of lines 191-200
NewPull(number, head, base, update) ==
    [number |-> number,
     url    |-> <<"p">> \o NatToStr(number),
     title  |-> <<"Update .NET SDK to ", update.latest.sdkVersion>>,
     head   |-> head,
     base   |-> base,
     body   |-> GeneratePullRequestBody(update)]

\* createPullRequest, lines 178-220. Unless this is a dry run the request is
\* made, whatever the repository, the branches of the remote and its pull
\* requests are; whether it is granted is for the service to say.
CreatePull ==
    /\ pc = "createPull"
    /\ \/ /\ options.dryRun
          /\ locals' = [locals EXCEPT !.pullRequest = [number |-> 0, url |-> <<>>]]
          /\ pc' = "finish"
          /\ UNCHANGED <<apiLog, remote, failure>>
       \/ /\ ~options.dryRun
          /\ apiLog' = Append(apiLog, [call |-> "pulls.create", failed |-> FALSE])
          /\ LET pull == NewPull(Len(remote.pulls) + 1, options.branch, locals.base,
                                 locals.update)
             IN  /\ remote' = [remote EXCEPT !.pulls = Append(@, pull)]
                 /\ locals' = [locals EXCEPT !.pullRequest =
                                 [number |-> pull.number, url |-> pull.url]]
          /\ pc' = IF options.labels # <<>> THEN "addLabels" ELSE "finish"
          /\ UNCHANGED failure
       \/ /\ ~options.dryRun
          /\ apiLog' = Append(apiLog, [call |-> "pulls.create", failed |-> TRUE])
          /\ Throws("pulls.create failed")
          /\ UNCHANGED <<remote, locals>>
    /\ UNCHANGED <<callVars, options, file, fileWrites, served, git, gitLog, result,
                   outputs>>

AfterLabels_Rethrown(failed) == IF failed THEN "failed" ELSE "finish"

\* The catch of lines 233-236 logs the error and does not rethrow:
\* createPullRequest returns result either way
AfterLabels(failed) == "finish"

\* createPullRequest, lines 222-240: a failure to label is logged, not thrown
AddLabels ==
    /\ pc = "addLabels"
    /\ \/ /\ apiLog' = Append(apiLog, [call |-> "issues.addLabels", failed |-> FALSE])
          /\ remote' = [remote EXCEPT !.labelled = @ \cup {locals.pullRequest.number}]
          /\ pc' = AfterLabels(FALSE)
       \/ /\ apiLog' = Append(apiLog, [call |-> "issues.addLabels", failed |-> TRUE])
          /\ UNCHANGED remote
          /\ pc' = AfterLabels(TRUE)
    /\ UNCHANGED <<callVars, options, file, fileWrites, served, git, gitLog, locals,
                   result, failure, outputs>>

\* tryUpdateSdk, lines 163-168 and 174
Finish ==
    /\ pc = "finish"
    /\ result' = [result EXCEPT
                    !.pullRequestNumber = locals.pullRequest.number,
                    !.pullRequestUrl = locals.pullRequest.url,
                    !.security = locals.update.security,
                    !.updated = TRUE,
                    !.version = locals.update.latest.sdkVersion]
    /\ pc' = "outputs"
    /\ UNCHANGED <<callVars, options, file, fileWrites, served, git, remote, gitLog,
                   apiLog, locals, failure, outputs>>

\* main.run, lines 51-56. tryUpdateSdk puts no branchName in its result, and
\* core.setOutput writes an undefined value as the empty string.
SetOutputs ==
    /\ pc = "outputs"
    /\ outputs' = [branchName        |-> <<>>,
                   pullRequestNumber |-> result.pullRequestNumber,
                   pullRequestUrl    |-> result.pullRequestUrl,
                   sdkUpdated        |-> result.updated,
                   sdkVersion        |-> result.version,
                   security          |-> result.security]
    /\ pc' = "done"
    /\ UNCHANGED <<callVars, options, file, fileWrites, served, git, remote, gitLog,
                   apiLog, locals, result, failure>>

Next ==
    \/ Start
    \/ LoadManifest
    \/ FetchChannel
    \/ Compute
    \/ RevParseHead
    \/ WriteManifest
    \/ ConfigUserName
    \/ ConfigUserEmail
    \/ RemoteSetUrl
    \/ FetchOrigin
    \/ BranchExists
    \/ Checkout
    \/ Add
    \/ Commit
    \/ Log
    \/ Push
    \/ CreatePull
    \/ AddLabels
    \/ Finish
    \/ SetOutputs

Spec == Init /\ [][Next]_vars

(***************************************************************************)
(* What the claims about a run speak of                                     *)
(***************************************************************************)

\* getLatestRelease has returned in this run
Resolved == locals.update # None

\* The resolved current SDK version is the latest of the channel
UpToDate == Resolved /\ locals.update.current.sdkVersion = locals.update.latest.sdkVersion

OutOfDate == Resolved /\ locals.update.current.sdkVersion # locals.update.latest.sdkVersion

\* The run has not failed, and reports that nothing was updated
ReportsNoUpdate ==
    /\ failure = None
    /\ pc \in {"outputs", "done"}
    /\ result # None
    /\ result.updated = FALSE
    /\ pc = "done" => outputs # None /\ outputs.sdkUpdated = FALSE

\* The places in the log of git commands where the command is cmd
PositionsOf(cmd) == {k \in 1..Len(gitLog) : gitLog[k].cmd = cmd}

\* The existence check was made in this run, git having been started for it,
\* and the repository had the remote-tracking ref of the branch when it was
\* made
ExistedAtCheck ==
    /\ \E k \in PositionsOf("rev-parse --verify --quiet") : gitLog[k].ref
    /\ failure # None => failure.at # "branchExists"

\* The existence check was made in this run and found the remote-tracking ref
FoundAtCheck ==
    \E k \in PositionsOf("rev-parse --verify --quiet") : ~gitLog[k].failed

\* The git commands run after the existence check
AfterCheck ==
    {gitLog[j].cmd : j \in {i \in 1..Len(gitLog) :
                              \E k \in PositionsOf("rev-parse --verify --quiet") : i > k}}

\* C1: in a run where the resolved current SDK version equals the latest SDK
\* version of the channel, the run does not fail and reports updated = false,
\* the manifest is never written, no git command is run and no pull request
\* is created.
C1_UpToDateDoesNothing ==
    UpToDate =>
        /\ ReportsNoUpdate
        /\ fileWrites = 0
        /\ gitLog = <<>>
        /\ git.commits = <<>>
        /\ git.head = MainBranch
        /\ apiLog = <<>>
        /\ remote.pulls = <<>>

C1_Witness ==
    /\ UpToDate
    /\ pc = "done"
    /\ outputs.sdkUpdated = FALSE
    /\ outputs.sdkVersion = served.latestSdk

\* C2: in a run where current differs from latest and the repository has
\* remotes/origin/<branch> when the existence check is made, no checkout -b,
\* add, commit or push is run and no pull request is created afterwards, and
\* the run ends without error reporting updated = false.
C2_ExistingBranchStops ==
    (OutOfDate /\ ExistedAtCheck) =>
        /\ ReportsNoUpdate
        /\ AfterCheck = {}
        /\ git.commits = <<>>
        /\ git.head = MainBranch
        /\ apiLog = <<>>
        /\ remote.pulls = <<>>

\* The steps of a run that come before git commit and can throw
StepsBeforeCommit ==
    {"start", "load", "fetch", "compute", "revParseHead", "configName",
     "configEmail", "remoteSetUrl", "fetchOrigin", "branchExists", "checkout",
     "add"}

\* The steps before applySdkUpdate: manifest load, channel resolution, feed
\* fetch and delta computation
StepsBeforeApply == {"start", "load", "fetch", "compute"}

\* C11: a failure thrown by a step before the commit step ends the run with
\* that one failure: no commit, no push and no pull request follow, no
\* output is set, and when the step was the manifest load, the channel
\* resolution, the feed fetch or the delta computation the manifest has not
\* been written.
C11_FailureBeforeCommitAborts ==
    (failure # None /\ failure.at \in StepsBeforeCommit) =>
        /\ pc = "failed"
        /\ git.commits = <<>>
        /\ PositionsOf("commit") = {}
        /\ PositionsOf("push -u origin") = {}
        /\ apiLog = <<>>
        /\ remote.pulls = <<>>
        /\ result = None \/ result.updated = FALSE
        /\ outputs = None
        /\ failure.at \in StepsBeforeApply => fileWrites = 0 /\ gitLog = <<>>

\* A failed git add on the update branch, after the manifest was written
C11_Witness ==
    /\ failure # None
    /\ failure.at = "add"
    /\ fileWrites = 1
    /\ git.head = options.branch

\* The run has ended with a commit made on the branch of the options
AppliedUpdate ==
    /\ pc = "done"
    /\ \E k \in 1..Len(git.commits) : git.commits[k].branch = options.branch

\* C12: when a run has created and committed the update branch, the
\* branch-name output is the name of that branch: the configured name, or
\* the derived update-dotnet-sdk-<latest> in lower case.
C12_BranchNameReported ==
    AppliedUpdate =>
        /\ outputs.branchName = options.branch
        /\ outputs.branchName = BranchOfRun(options, served)

\* The git commit of a dry run has been run, and the run has gone on to its end
DryRunCommitted ==
    /\ options.dryRun
    /\ pc = "done"
    /\ PositionsOf("commit") # {}

\* C13: a dry run that reaches the commit step creates the branch and makes
\* the commit on it locally, executes no push, makes neither the call that
\* creates the pull request nor the call that labels it, and reports the
\* placeholder pull request, number 0 with an empty URL.
C13_DryRunStaysLocal ==
    DryRunCommitted =>
        /\ options.branch \in git.branches
        /\ git.head = options.branch
        /\ Len(git.commits) = 1
        /\ git.commits[1].branch = options.branch
        /\ PositionsOf("push -u origin") = {}
        /\ apiLog = <<>>
        /\ remote.pulls = <<>>
        /\ result.pullRequestNumber = 0
        /\ result.pullRequestUrl = <<>>
        /\ outputs.pullRequestNumber = 0
        /\ outputs.pullRequestUrl = <<>>

\* The call that attaches the labels was made and failed
LabelsFailed ==
    \E k \in 1..Len(apiLog) :
        apiLog[k].call = "issues.addLabels" /\ apiLog[k].failed

\* The pull request the run created on the remote
CreatedPull == remote.pulls[Len(remote.pulls)]

\* C14: when the pull request was created and attaching the labels failed,
\* the run does not fail, the pull request stands, and the result reports
\* updated = true with the number and URL of that pull request and the
\* latest SDK version.
C14_LabelFailureSwallowed ==
    LabelsFailed =>
        /\ failure = None
        /\ pc \in {"finish", "outputs", "done"}
        /\ Len(remote.pulls) = 1
        /\ CreatedPull.head = options.branch
        /\ pc \in {"outputs", "done"} =>
              /\ result.updated
              /\ result.pullRequestNumber = CreatedPull.number
              /\ result.pullRequestUrl = CreatedPull.url
              /\ result.version = locals.update.latest.sdkVersion
        /\ pc = "done" =>
              /\ outputs.sdkUpdated
              /\ outputs.pullRequestNumber = CreatedPull.number
              /\ outputs.pullRequestUrl = CreatedPull.url
              /\ outputs.sdkVersion = served.latestSdk

C14_Witness ==
    /\ LabelsFailed
    /\ pc = "done"
    /\ outputs.sdkUpdated
    /\ outputs.pullRequestNumber = 1
    /\ remote.labelled = {}

(***************************************************************************)
(* generateCommitMessage applied to pairs of versions major.minor.patch     *)
(* whose major and minor run over the three numbers that end with          *)
(* MaxSegment, so that one and two digit numbers meet                       *)
(***************************************************************************)

MaxSegment == 10

InitMessage ==
    /\ LET segments == (MaxSegment - 2)..MaxSegment
           \* the third segment of a version: a feature band and patch, or a
           \* preview
           thirds == {<<"1", "0", "0">>, <<"1", "0", "0">> \o PreviewSuffix}
           \* `${major}.${minor}.${third}`
           DottedVersion(major, minor, third) ==
               NatToStr(major) \o <<".">> \o NatToStr(minor) \o <<".">> \o third
       IN  \E cmaj \in segments : \E cmin \in segments :
           \E lmaj \in segments : \E lmin \in segments :
           \E cthird \in thirds : \E lthird \in thirds :
              input = [currentSdkVersion |-> DottedVersion(cmaj, cmin, cthird),
                       latestSdkVersion |-> DottedVersion(lmaj, lmin, lthird),
                       current |-> [major |-> cmaj, minor |-> cmin],
                       latest |-> [major |-> lmaj, minor |-> lmin]]
    /\ output = NoCall
    /\ NoRun

\* DotNetSdkUpdater.generateCommitMessage(currentSdkVersion, latestSdkVersion)
CallGenerateCommitMessage ==
    /\ output = NoCall
    /\ output' = [fn |-> "generateCommitMessage",
                  result |-> GenerateCommitMessage(input.currentSdkVersion,
                                                   input.latestSdkVersion)]
    /\ UNCHANGED <<input, runVars>>

NextMessage == CallGenerateCommitMessage

SpecMessage == InitMessage /\ [][NextMessage]_vars

\* The classification the numbers of the two versions call for
Classification ==
    IF input.latest.major > input.current.major THEN <<"m", "a", "j", "o", "r">>
    ELSE IF input.latest.minor > input.current.minor THEN <<"m", "i", "n", "o", "r">>
    ELSE <<"p", "a", "t", "c", "h">>

\* The lines of the message returned
MessageLines == Split(output.result, "\n")

UpdateTypePrefix == Chars("  update-type: version-update:semver-")

\* The lines of the message that begin as the update-type line does
UpdateTypeLines ==
    {k \in 1..Len(MessageLines) :
        /\ Len(MessageLines[k]) >= Len(UpdateTypePrefix)
        /\ SubSeq(MessageLines[k], 1, Len(UpdateTypePrefix)) = UpdateTypePrefix}

\* C15: generateCommitMessage classifies the change as major when the first
\* number of latest exceeds that of current, otherwise as minor when the
\* second number of latest exceeds that of current, otherwise as patch; the
\* message has exactly one update-type line, which reads
\* version-update:semver-<classification>, and the line after it is the
\* document-end marker.
C15_CommitMessageClassifies ==
    output.fn = "generateCommitMessage" =>
        /\ UpdateKind(input.currentSdkVersion, input.latestSdkVersion) = Classification
        /\ Cardinality(UpdateTypeLines) = 1
        /\ \A k \in UpdateTypeLines :
              /\ MessageLines[k] = UpdateTypePrefix \o Classification
              /\ k < Len(MessageLines)
              /\ MessageLines[k + 1] = <<".", ".", ".">>

\* A minor change across a change of digits, with a lower major: 9.9 to 8.10
C15_Witness ==
    /\ output.fn = "generateCommitMessage"
    /\ input.current.major = 9 /\ input.current.minor = 9
    /\ input.latest.major = 8 /\ input.latest.minor = 10
    /\ Classification = <<"m", "i", "n", "o", "r">>
    /\ \E k \in UpdateTypeLines :
          MessageLines[k] = UpdateTypePrefix \o <<"m", "i", "n", "o", "r">>

\* What a reader of the manifest file gets: JSON.parse of its text
ReadManifest(f) == JsonParse(f.text)

\* A manifest object with its SDK version blanked: all of its other fields
OtherFields(globalJson) ==
    SetMember(globalJson, SdkKey,
              SetMember(Get(globalJson, SdkKey), VersionKey, JsonString(<<>>)))

\* A step that writes the manifest file
WritesManifest == fileWrites' # fileWrites

\* C16: whenever an update is applied, the manifest read back after the
\* write has latest.sdkVersion as its SDK version, and every other field of
\* the manifest object has the value it had before the write.
C16_RoundTrip ==
    [][WritesManifest =>
         /\ OutOfDate
         /\ ReadManifest(file').ok
         /\ SdkVersionOf(ReadManifest(file').value)
               = JsonString(locals.update.latest.sdkVersion)
         /\ OtherFields(ReadManifest(file').value) = OtherFields(ReadManifest(file).value)]_vars

\* The manifest with other fields before and after sdk.version was rewritten
\* from 8.0.100 to 8.0.102
C16_Witness ==
    /\ fileWrites = 1
    /\ locals.sdkVersion = JsonString(Sdk100)
    /\ ReadManifest(file).value = VersionLast(Sdk102)
    /\ file.text # JsonStringify(VersionLast(Sdk102), 4)

\* The git commands whose failure execGit is asked to ignore by the rule
\* that only the existence check and the fetch tolerate errors
ToleratedByRule == {"rev-parse --verify --quiet", "fetch origin"}

\* C17: a git command other than the existence check and the fetch that
\* fails is the last thing the run does, and the run ends in failure: no git
\* command and no API call follows it, and the result never reports
\* updated = true. So no add or commit follows a failed checkout -b, and no
\* pull request follows a failed push.
C17_OnlyCheckAndFetchTolerated ==
    \A k \in 1..Len(gitLog) :
        (gitLog[k].failed /\ gitLog[k].cmd \notin ToleratedByRule) =>
            /\ k = Len(gitLog)
            /\ pc = "failed"
            /\ failure # None
            /\ apiLog = <<>>
            /\ result = None \/ ~result.updated

\* The call that creates the pull request has been made
PullRequested == \E k \in 1..Len(apiLog) : apiLog[k].call = "pulls.create"

\* git push has put the branch on the remote in this run
Pushed == \E k \in PositionsOf("push -u origin") : ~gitLog[k].failed

\* C18: in a run that is not a dry run the call that creates the pull
\* request is made only after the update branch was pushed to the remote in
\* that run, whether or not a repository is configured.
C18_PushBeforePullRequest ==
    (~options.dryRun /\ PullRequested) =>
        /\ Pushed
        /\ options.branch \in remote.branches

\* tryUpdateSdk has returned its result to main.run
Succeeded == pc \in {"outputs", "done"} /\ failure = None

\* createPullRequest has returned, with a pull request or the placeholder
PullRequestReturned == locals.pullRequest # None

\* C20: at the end of a successful run updated is true exactly when the
\* pull-request step returned; then the result carries the latest SDK
\* version, the security flag of the delta and the number and URL the step
\* returned; otherwise it carries the current SDK version, security false,
\* number 0 and an empty URL. The outputs say what the result says.
C20_ResultShape ==
    Succeeded =>
        /\ result.updated <=> PullRequestReturned
        /\ result.updated =>
              /\ result.version = locals.update.latest.sdkVersion
              /\ result.security = locals.update.security
              /\ result.pullRequestNumber = locals.pullRequest.number
              /\ result.pullRequestUrl = locals.pullRequest.url
        /\ ~result.updated =>
              /\ result.version = locals.update.current.sdkVersion
              /\ JsonString(result.version) = locals.sdkVersion
              /\ result.security = FALSE
              /\ result.pullRequestNumber = 0
              /\ result.pullRequestUrl = <<>>
        /\ pc = "done" =>
              /\ outputs.sdkUpdated = result.updated
              /\ outputs.sdkVersion = result.version
              /\ outputs.security = result.security
              /\ outputs.pullRequestNumber = result.pullRequestNumber
              /\ outputs.pullRequestUrl = result.pullRequestUrl

\* A run that stopped at the existence check although a security update was
\* there to apply
C20_Witness ==
    /\ pc = "done"
    /\ ~result.updated
    /\ OutOfDate
    /\ locals.update.security
    /\ outputs.sdkVersion = Sdk100
    /\ outputs.security = FALSE

(***************************************************************************)
(* Runs of the action one after another against the same remote: each run   *)
(* is given the same inputs and starts from a fresh clone of the base       *)
(* branch. The runs are not dry runs and derive the branch name.            *)
(***************************************************************************)

MaxRuns == 2

InitRuns ==
    /\ Init
    /\ ~options.dryRun
    /\ options.branch = <<>>
    /\ options.channel = <<>>
    /\ options.commitMessage = <<>>
    /\ (options.userName = <<>>) = (options.userEmail = <<>>)
    /\ file.exists
    /\ ManifestVersion(file) \in {Sdk100, Sdk101, Sdk102}

\* The next run starts when the last has ended. Its clone has the base
\* branch checked out, with the manifest of the base branch, and has the
\* remote-tracking ref of the base branch alone or those of all the branches
\* of the remote.
NextRun ==
    /\ pc \in {"done", "failed"}
    /\ input.run < MaxRuns
    /\ input' = [input EXCEPT !.run = @ + 1]
    /\ pc' = "start"
    /\ options' = input.options
    /\ file' = input.manifest
    /\ fileWrites' = 0
    /\ \E single \in BOOLEAN :
         git' = [head |-> MainBranch,
                 branches |-> {MainBranch},
                 tracking |-> IF single THEN {MainBranch} ELSE remote.branches,
                 singleBranch |-> single,
                 staged |-> FALSE,
                 commits |-> <<>>,
                 userName |-> <<>>,
                 userEmail |-> <<>>]
    /\ gitLog' = <<>>
    /\ apiLog' = <<>>
    /\ locals' = [globalJson |-> None, sdkVersion |-> JsonString(<<>>),
                  releaseChannel |-> None,
                  update |-> None, base |-> <<>>, pullRequest |-> None]
    /\ result' = None
    /\ failure' = None
    /\ outputs' = None
    /\ UNCHANGED <<output, served, remote>>

NextRuns == Next \/ NextRun

SpecRuns == InitRuns /\ [][NextRuns]_vars

\* The pull requests on the remote that update to this SDK version
PullsFor(sdkVersion) ==
    {k \in 1..Len(remote.pulls) :
        remote.pulls[k].title = <<"Update .NET SDK to ", sdkVersion>>}

\* The pull request for the latest SDK version was created by an earlier run
CreatedByEarlierRun ==
    /\ PullsFor(served.latestSdk) # {}
    /\ ~\E k \in 1..Len(apiLog) : apiLog[k].call = "pulls.create" /\ ~apiLog[k].failed

\* The steps of applySdkUpdate and createPullRequest after the existence check
StepsAfterCheck ==
    {"checkout", "add", "commit", "log", "push", "createPull", "addLabels", "finish"}

\* C19: over runs made one after another against the same remote, from the
\* same manifest and feed, at most one pull request is created for the
\* latest SDK version, and a run that follows the run that created it goes
\* no further than the existence check: it runs no checkout -b, add, commit
\* or push and calls no API.
C19_LaterRunsStopAtCheck ==
    /\ Cardinality(PullsFor(served.latestSdk)) <= 1
    /\ CreatedByEarlierRun =>
          /\ pc \notin StepsAfterCheck
          /\ AfterCheck = {}
          /\ git.commits = <<>>
          /\ apiLog = <<>>
          /\ failure = None \/ failure.at \notin StepsAfterCheck

\* The base branch was read: git rev-parse --abbrev-ref HEAD ran first and
\* did not fail
BaseRead ==
    /\ Len(gitLog) >= 1
    /\ gitLog[1] = [cmd |-> "rev-parse --abbrev-ref HEAD", failed |-> FALSE]
    /\ locals.base = MainBranch

\* The existence check has been run
Checked == PositionsOf("rev-parse --verify --quiet") # {}

\* C21: in a run the manifest is written at most once, only when current
\* differs from latest and only after the base branch was read; it has been
\* written by the time the existence check runs. So when the check finds
\* the branch, the file holds latest.sdkVersion while the run reports
\* updated = false and the current SDK version.
C21_WriteBeforeCheck ==
    /\ fileWrites <= 1
    /\ fileWrites = 1 => OutOfDate /\ BaseRead
    /\ fileWrites = 0 => file = input.manifest
    /\ Checked \/ pc = "branchExists" => fileWrites = 1
    /\ (OutOfDate /\ FoundAtCheck) =>
          /\ ManifestVersion(file) = locals.update.latest.sdkVersion
          /\ ManifestVersion(file) # locals.sdkVersion.text
          /\ ReportsNoUpdate
          /\ result.version = locals.update.current.sdkVersion
          /\ pc = "done" => outputs.sdkVersion = locals.sdkVersion.text

\* The run found the branch: global.json says 8.0.102, the outputs 8.0.100
C21_Witness ==
    /\ pc = "done"
    /\ FoundAtCheck
    /\ fileWrites = 1
    /\ ManifestVersion(input.manifest) = Sdk100
    /\ ManifestVersion(file) = Sdk102
    /\ outputs.sdkVersion = Sdk100
    /\ outputs.sdkUpdated = FALSE

====
